---- MODULE Spec2Model ----
(***************************************************************************)
(* Verification model of the queueing core of Integrations_seven2:         *)
(*   - WorkflowQueue  (src/app/queue/workflow_queue.py), a Redis-backed     *)
(*     priority queue of workflow tasks;                                    *)
(*   - RetryQueue     (src/app/queue/retry_queue.py), a file-backed retry    *)
(*     queue driven by one asyncio background task;                         *)
(*   - LongTermMemory (src/app/memory_manager.py), the PostgreSQL table of   *)
(*     curated insights;                                                    *)
(*   - EpisodicMemory, ShortTermMemory and MemoryManager of the same file;   *)
(*   - the retry handlers of AmazonAgent (src/app/agent.py).                *)
(* Each subsystem has its own specifications (SpecWQ; SpecRQ, SpecRQLive,   *)
(* SpecRQReg, SpecRQApp; SpecLTM; SpecEM; SpecSTM; SpecMM); the variables   *)
(* of the other subsystems stay unchanged in them.                          *)
(***************************************************************************)
EXTENDS Integers, FiniteSets, Sequences, TLC

(***************************************************************************)
(* Bounds of the model.                                                     *)
(***************************************************************************)
MaxWTasks == 2
MaxOps == 2
MaxProcs == 3
MaxTime == 66
MaxCrashes == 1
MaxStops == 1
MaxRejected == 2
MaxAppOps == 6
\* config.MAX_MEMORIES_PER_CLIENT, set from the environment (1000 if unset)
MaxMemoriesPerClient == 11
MaxSerial == 13
\* config.MAX_EPISODIC_MEMORIES, set from the environment (100 if unset)
MaxEpisodicMemories == 3
MaxEpisodicStores == 5
\* config.REDIS_TTL (86400 seconds)
RedisTTL == 3
MaxRedisTime == 4
MaxStCalls == 2
MaxSkipped == 1
MaxMMEpisodic == 1
MaxMMShortTerm == 1
\* WorkflowQueue consumers
MaxConsumers == 2
\* LongTermMemory callers
MaxStorers == 2
MaxOffered == 4
\* idempotent operations
MaxIdempotentStores == 3

(***************************************************************************)
(* State.                                                                   *)
(***************************************************************************)
VARIABLES
    \* WorkflowQueue: the three Redis keys
    results,            \* hash  workflow:results     task id -> task
    queue,              \* zset  workflow:queue       task id -> score
    processing,         \* set   workflow:processing
    \* RetryQueue: the object's fields
    pending_tasks,      \* operation id -> operation
    callbacks,          \* the operation names that have a handler
    is_processing,
    _stop_processing,
    _processing_task,   \* None or the asyncio task created last by a submit
    \* RetryQueue: its environment
    tasks,              \* asyncio tasks running _process_retries, by creation order
    files,              \* storage_path/<id>.json
    dead_letters,       \* storage_path/dead_letters/<id>_<time>.json
    now,                \* datetime.utcnow(), in minutes
    next_uuid,          \* uuid.uuid4(): ids are fresh
    stop_wait,          \* the task a stop_processing() call is awaiting, or None
    crashes,            \* process restarts so far
    stops,              \* stop_processing() calls so far
    \* RetryQueue: observation of the calls and of the handlers
    submitted,          \* operation id -> the arguments of its submit
    calls,              \* operation id -> handler invocations started
    fails,              \* operation id -> handler invocations that raised
    exhausted,          \* ids whose handler raised with attempt >= max_attempts
    reloaded,           \* ids loaded from disk before they were due
    dl_at_load,         \* dead-lettered ids at the time of a _load_operations
    rejected,           \* submits that raised QueueError
    \* LongTermMemory
    is_available,       \* the connection pool was created
    memories,           \* the rows of table memories
    serial,             \* the next value of memories.id; also the clock of NOW()
    inserted,           \* client id -> id and insight hash of every row inserted
    refused,            \* some store call was rejected for the raw data it holds
    \* EpisodicMemory
    episodic,           \* self.memories: client id -> list of entries
    utcnow,             \* datetime.utcnow() of the next entry
    ep_log,             \* client id -> every entry stored for it, in call order
    \* ShortTermMemory
    st_available,       \* is_available: the ping at initialize() succeeded
    redis,              \* the Redis database: key -> data and instant of expiry
    redis_time,         \* the clock of the Redis server, in seconds
    st_log,             \* <<client id, key>> -> the last store call for the pair
    st_calls,           \* store and delete calls so far
    \* MemoryManager
    initialized,        \* self.initialized
    raised,             \* some call let an exception through to its caller
    skipped,            \* calls made so far that met a missing or failing backend
    \* AmazonAgent
    resubmitted,        \* ids of the operations submitted by a retry handler
    \* WorkflowQueue.dequeue run by several consumers
    consumers,          \* consumer -> the statement it stands at and its locals
    returned,           \* task id -> dequeue calls that returned the task
    \* LongTermMemory.store run by several callers
    storers,            \* caller -> the statement it stands at and its locals
    offered,            \* store calls started so far
    \* utils/retry.py: a function decorated with async_retry
    wrapper,            \* the running (or last) call of the wrapper: its locals
    \* utils/retry.py: a function decorated with idempotent_operation
    last_call           \* the last call of the wrapper: arguments and return value

wqvars == <<results, queue, processing>>
rqvars == <<pending_tasks, callbacks, rejected, is_processing,
            _stop_processing, _processing_task,
            tasks, files, dead_letters, now, next_uuid, stop_wait, crashes,
            stops, submitted, calls, fails, exhausted, reloaded, dl_at_load>>
ltmvars == <<is_available, memories, serial, inserted, refused>>
emvars == <<episodic, utcnow, ep_log>>
stvars == <<st_available, redis, redis_time, st_log, st_calls>>
mgvars == <<initialized, raised, skipped>>
appvars == <<resubmitted>>
\* the calls that are modelled statement by statement, or by their arguments
\* and return value
stepvars == <<consumers, returned, storers, offered, wrapper, last_call>>
mmvars == <<emvars, stvars, mgvars, appvars, stepvars>>
vars == <<wqvars, rqvars, ltmvars, mmvars>>

None == 0

(***************************************************************************)
(* WorkflowQueue                                                            *)
(***************************************************************************)
TaskIds == 1..MaxWTasks
PriorityChoices == {0, 1}
RetryMaxChoices == {1, 3}

\* __init__: an empty Redis database
InitWQ ==
    /\ results = <<>>
    /\ queue = <<>>
    /\ processing = {}

\* redis hset / zadd on a key: insert or overwrite one field
Put(f, k, v) == [x \in DOMAIN f \cup {k} |-> IF x = k THEN v ELSE f[x]]

\* redis zrem / hdel: drop one field
Drop(f, k) == [x \in DOMAIN f \ {k} |-> f[x]]

\* zrange(queue_key, -1, -1): the member of highest score, ties broken by the
\* members' own (lexicographic) order
ZTop(z) ==
    {m \in DOMAIN z :
        \A u \in DOMAIN z : z[u] < z[m] \/ (z[u] = z[m] /\ u <= m)}

\* enqueue(workflow_type, data, priority, dependencies): task_id is a fresh
\* uuid, so its order among the ids is arbitrary; created_at is the time of
\* the call, later for each later call
enqueue(task_id, priority, dependencies) ==
    /\ task_id \notin DOMAIN results
    /\ results' = Put(results, task_id,
                      [status |-> "pending", priority |-> priority,
                       dependencies |-> dependencies,
                       created_at |-> Cardinality(DOMAIN results),
                       attempts |-> 0])
    /\ queue' = Put(queue, task_id, priority)
    /\ UNCHANGED processing

\* dequeue(): None on an empty queue, else the top task, marked processing
dequeue ==
    /\ \E task_id \in ZTop(queue) :
        /\ task_id \in DOMAIN results
        /\ results' = [results EXCEPT ![task_id].status = "processing"]
        /\ queue' = Drop(queue, task_id)
        /\ processing' = processing \cup {task_id}

\* complete(task_id, result, error)
complete(task_id, error) ==
    /\ task_id \in DOMAIN results
    /\ results' = [results EXCEPT
                     ![task_id].status = IF error THEN "failed" ELSE "completed"]
    /\ processing' = processing \ {task_id}
    /\ UNCHANGED queue

\* the test of retry_failed on one task
Retriable(task_id, max_attempts) ==
    /\ results[task_id].status = "failed"
    /\ results[task_id].attempts < max_attempts
    /\ task_id \notin processing

\* retry_failed(max_attempts): every retriable task goes back to the queue
retry_failed(max_attempts) ==
    LET retried == {t \in DOMAIN results : Retriable(t, max_attempts)} IN
    /\ retried # {}
    /\ results' = [t \in DOMAIN results |->
                     IF t \in retried
                     THEN [results[t] EXCEPT !.attempts = @ + 1,
                                             !.status = "pending"]
                     ELSE results[t]]
    /\ queue' = [t \in DOMAIN queue \cup retried |-> results[t].priority]
    /\ UNCHANGED processing

NextWQ ==
    \/ \E id \in TaskIds, p \in PriorityChoices, d \in SUBSET DOMAIN results :
          enqueue(id, p, d) /\ UNCHANGED <<rqvars, ltmvars, mmvars>>
    \/ dequeue /\ UNCHANGED <<rqvars, ltmvars, mmvars>>
    \/ \E id \in TaskIds, e \in BOOLEAN : complete(id, e) /\ UNCHANGED <<rqvars, ltmvars, mmvars>>
    \/ \E m \in RetryMaxChoices : retry_failed(m) /\ UNCHANGED <<rqvars, ltmvars, mmvars>>

(***************************************************************************)
(* RetryQueue                                                               *)
(***************************************************************************)
OpIds == 1..MaxOps
\* the ids at hand when retry handlers submit operations themselves
AppOpIds == 1..MaxAppOps
ProcIds == 1..MaxProcs
\* the names submits are made under, and those the application registers
\* while it starts (register_queues)
OperationNames == {"apify_scrape", "ai_analysis"}
StartupOperations == {"apify_scrape"}

\* data.get("_attempt", 0) reads 0 when the payload has no "_attempt" key
NoAttempt == -1
MaxAttemptsChoices == {1, 3}
\* the payloads submitted: a plain one, one that carries an "_attempt" counter
\* already, and one that json.dump cannot serialise (it holds a datetime, say)
DataChoices == {[_attempt |-> NoAttempt, ser |-> TRUE],
                [_attempt |-> 2, ser |-> TRUE],
                [_attempt |-> NoAttempt, ser |-> FALSE]}
\* the explicit next_retry_at a caller may pass, as minutes from now
ExplicitDelays == {1}
\* the arguments of the submits: the default call with a plain payload, and
\* the calls that differ from it by a max_attempts of 1, by an explicit
\* next_retry_at, by a payload that does not serialise, or by a payload that
\* counts more attempts than a max_attempts of 1 allows
SubmitChoices ==
    {c \in [max_attempts : MaxAttemptsChoices, data : DataChoices,
            next_retry_at : {None} \cup ExplicitDelays] :
        /\ c.next_retry_at # None =>
              c.max_attempts = 3 /\ c.data._attempt = NoAttempt /\ c.data.ser
        /\ c.data._attempt # NoAttempt => c.max_attempts = 1
        /\ ~c.data.ser => c.max_attempts = 3}

BackoffBase == 5
BackoffMultiplier == 3
\* a backoff that grows linearly
backoff_minutes_linear(attempt) == BackoffBase * BackoffMultiplier * attempt

\* 5 * (3 ** attempt) minutes
backoff_minutes(attempt) == BackoffBase * (BackoffMultiplier ^ attempt)

\* what json.dump leaves of a payload it cannot serialise: a truncated file
NoOperation == [attempt |-> 0, max_attempts |-> 0, next_retry_at |-> 0,
                data |-> [_attempt |-> NoAttempt, ser |-> TRUE]]

Truncated == [ok |-> FALSE, operation |-> NoOperation]

NoTask == [pc |-> "none", cur |-> None, batch |-> {}, cancel |-> FALSE,
           operation |-> NoOperation]

\* RetryQueue() over an empty storage directory, with the handlers of the
\* application registered
InitRQ ==
    /\ pending_tasks = <<>>
    /\ callbacks = StartupOperations
    /\ rejected = 0
    /\ is_processing = FALSE
    /\ _stop_processing = FALSE
    /\ _processing_task = None
    /\ tasks = [t \in ProcIds |-> NoTask]
    /\ files = <<>>
    /\ dead_letters = {}
    /\ now = 0
    /\ next_uuid = 1
    /\ stop_wait = None
    /\ crashes = 0
    /\ stops = 0
    /\ submitted = <<>>
    /\ calls = [i \in AppOpIds |-> 0]
    /\ fails = [i \in AppOpIds |-> 0]
    /\ exhausted = {}
    /\ reloaded = {}
    /\ dl_at_load = {}

(***************************************************************************)
(* LongTermMemory                                                           *)
(***************************************************************************)
Clients == {"a", "b"}
Keys == {"k1", "k2"}

\* A value is a dict: its items in insertion order.  Insight(n) is an insight
\* of content n; Reordered(value) has the same items in another order;
\* RawData(n) embeds a raw prompt.
Insight(n) == << <<"insight", n>>, <<"score", 1>> >>
Reordered(value) == [i \in DOMAIN value |-> value[Len(value) + 1 - i]]
RawData(n) == << <<"raw_prompt", n>> >>
\* ScraperData(n) embeds a scraper payload next to an insight; in
\* NestedRawData(n) the raw prompt sits in a dict under key "details" (an
\* item of a nested dict is written as the path of its keys and its value).
ScraperData(n) == << <<"insight", n>>, <<"scraper_payload", n>> >>
NestedRawData(n) == << <<"insight", n>>, <<"details", "raw_prompt", n>> >>

\* a test for raw prompts only
HoldsRawPrompt(value) ==
    \E i \in DOMAIN value : value[i][1] = "raw_prompt"

\* '"raw_prompt" in value or "scraper_payload" in value'
HoldsRawData(value) ==
    \E i \in DOMAIN value : value[i][1] \in {"raw_prompt", "scraper_payload"}

\* json.dumps(value, sort_keys=True): the items whatever their order
json_dumps_sorted(value) == {value[i] : i \in DOMAIN value}

\* hashlib.md5(...).hexdigest(): one digest per serialisation
insight_hash(value) == json_dumps_sorted(value)

\* LongTermMemory(): not connected, over an empty table
InitLTM ==
    /\ is_available = FALSE
    /\ memories = {}
    /\ serial = 1
    /\ inserted = [c \in Clients |-> {}]
    /\ refused = FALSE

\* initialize(): the pool is created and the table exists, or the connection
\* fails and the memory stays unavailable
initialize(connected) ==
    /\ is_available' = connected
    /\ UNCHANGED <<memories, serial, inserted, refused>>

\* the rows a DESC ordering would pick: the newest
Newest(rows, limit) ==
    {r \in rows : Cardinality({q \in rows : q.id > r.id}) < limit}

\* "ORDER BY created_at ASC LIMIT 10" over rows
Oldest(rows, limit) ==
    {r \in rows : Cardinality({q \in rows : q.id < r.id}) < limit}

\* LIMIT 10
EvictLimit == 10

\* store(client_id, key, value), its statements run without another store in
\* between
store(client_id, key, value) ==
    LET insight_key == <<key, insight_hash(value)>>
        mine == {r \in memories : r.client_id = client_id}
        existing == {r \in mine : r.key = insight_key}
        count == Cardinality(mine)
        kept == IF count >= MaxMemoriesPerClient
                THEN memories \ Oldest(mine, EvictLimit)
                ELSE memories
        row == [id |-> serial, client_id |-> client_id, key |-> insight_key,
                value |-> value]
    IN
    IF ~is_available \/ HoldsRawData(value) \/ existing # {}
    THEN /\ refused' = (refused \/ (is_available /\ HoldsRawData(value)))
         /\ UNCHANGED <<is_available, memories, serial, inserted>>
    ELSE /\ memories' = kept \cup {row}
         /\ serial' = serial + 1
         /\ inserted' = [inserted EXCEPT ![client_id] =
                            @ \cup {[id |-> serial, hash |-> insight_hash(value)]}]
         /\ UNCHANGED <<is_available, refused>>

\* the values the calls pass: a new insight, raw data, or the value of a row
\* of the table once more, as it is or with its items in another order
ValuesOffered ==
    {Insight(serial), RawData(serial), ScraperData(serial)}
    \cup {r.value : r \in memories}
    \cup {Reordered(r.value) : r \in memories}

\* the rows outside the series of new insights of client "a" under key "k1";
\* the table holds one such row at most
SideRows(rows) ==
    {r \in rows : r.client_id # "a" \/ r.key[1] # "k1"
                    \/ r.value # Insight(r.id)}

NextLTM ==
    \/ \E connected \in BOOLEAN :
          initialize(connected) /\ UNCHANGED <<wqvars, rqvars, mmvars>>
    \/ \E c \in Clients, k \in Keys, v \in ValuesOffered :
          /\ serial <= MaxSerial
          /\ store(c, k, v)
          /\ \A r, q \in SideRows(memories') : r = q
          /\ UNCHANGED <<wqvars, rqvars, mmvars>>

(***************************************************************************)
(* EpisodicMemory                                                           *)
(***************************************************************************)
\* A Python value of input_data / output_data: its type, its len() and what
\* its text is made of.
PyInt == [type |-> "int", len |-> 0, text |-> "verbatim"]
ShortStr == [type |-> "str", len |-> 5, text |-> "verbatim"]
LongStr == [type |-> "str", len |-> 150, text |-> "verbatim"]
PyList == [type |-> "list", len |-> 2, text |-> "verbatim"]
PyDict == [type |-> "dict", len |-> 1, text |-> "verbatim"]

\* the branches of the loop of _summarize_input over one value
_summarize_value(value) ==
    IF value.type = "list"
    THEN [type |-> "str", len |-> value.len, text |-> "List with {len} items"]
    ELSE IF value.type = "dict"
    THEN [type |-> "str", len |-> value.len, text |-> "Dict with {len} keys"]
    ELSE IF value.type = "str" /\ value.len > 100
    THEN [type |-> "str", len |-> 103, text |-> "[:100] + ..."]
    ELSE value

\* _summarize_input(input_data): the same keys, each value summarized;
\* _summarize_output is the same function
_summarize_input(input_data) ==
    [i \in DOMAIN input_data |->
        <<input_data[i][1], _summarize_value(input_data[i][2])>>]

\* list(d.keys())
keys(d) == [i \in DOMAIN d |-> d[i][1]]

\* Python's lst[-k:] for an integer k: -0 is 0 and the slice is the whole
\* list; a negative k counts from the front
LastSlice(lst, k) ==
    IF k = 0 THEN lst
    ELSE IF k > 0
         THEN SubSeq(lst, IF Len(lst) > k THEN Len(lst) - k + 1 ELSE 1, Len(lst))
         ELSE SubSeq(lst, 1 - k, Len(lst))

\* Python's lst[:k] for k >= 0
FirstSlice(lst, k) == SubSeq(lst, 1, IF Len(lst) > k THEN k ELSE Len(lst))

\* a bound that keeps the first entries of the list
EnforceBoundsOldest(entries) ==
    IF Len(entries) > MaxEpisodicMemories
    THEN FirstSlice(entries, MaxEpisodicMemories)
    ELSE entries

\* "if len(...) > config.MAX_EPISODIC_MEMORIES: ... [-MAX_EPISODIC_MEMORIES:]"
EnforceBounds(entries) ==
    IF Len(entries) > MaxEpisodicMemories
    THEN LastSlice(entries, MaxEpisodicMemories)
    ELSE entries

\* one list that every client shares
WithSharedList(mem, client_id, entries) ==
    [c \in DOMAIN mem \cup {client_id} |-> entries]

\* "self.memories[client_id] = ...": the list of this client only
WithList(mem, client_id, entries) == Put(mem, client_id, entries)

\* EpisodicMemory(): no client has a list
InitEM ==
    /\ episodic = <<>>
    /\ utcnow = 1
    /\ ep_log = [c \in Clients |-> <<>>]

\* the entry built by store
Entry(analysis_type, input_data, output_data, insights) ==
    [timestamp |-> utcnow,
     analysis_type |-> analysis_type,
     input_summary |-> _summarize_input(input_data),
     output_summary |-> _summarize_input(output_data),
     insights |-> insights,
     metadata |-> [input_keys |-> keys(input_data),
                   output_keys |-> keys(output_data)]]

\* EpisodicMemory.store, which MemoryManager.store_episodic calls
store_episodic(client_id, analysis_type, input_data, output_data, insights) ==
    LET mine == IF client_id \in DOMAIN episodic
                THEN episodic[client_id] ELSE <<>>
        entry == Entry(analysis_type, input_data, output_data, insights)
    IN
    /\ episodic' = WithList(episodic, client_id,
                            EnforceBounds(Append(mine, entry)))
    /\ ep_log' = [ep_log EXCEPT ![client_id] = Append(@, entry)]
    /\ utcnow' = utcnow + 1

\* EpisodicMemory.get_summary(client_id, max_entries) over the lists mem
get_summary(mem, client_id, max_entries) ==
    IF client_id \notin DOMAIN mem
    THEN <<>>
    ELSE LET entries == LastSlice(mem[client_id], max_entries) IN
         [i \in DOMAIN entries |->
            [when |-> entries[i].timestamp,
             analysis |-> entries[i].analysis_type,
             key_insights |-> FirstSlice(entries[i].insights, 3),
             input_size |-> Len(entries[i].metadata.input_keys),
             output_size |-> Len(entries[i].metadata.output_keys)]]

\* insights: a list of n strings, the strings told apart by their position
Insights(n) == [i \in 1..n |-> i]

\* the arguments of the store calls: what the workflow tasks of agent.py pass
\* (short values, two insights), a call with a long text, a list and a dict
\* and four insights, and a call with nothing to report
EpisodicChoices ==
    {[analysis_type |-> "scrape_completed",
      input_data |-> << <<"keyword", ShortStr>>, <<"max_results", PyInt>> >>,
      output_data |-> << <<"product_count", PyInt>> >>,
      insights |-> Insights(2)],
     [analysis_type |-> "ai_analysis",
      input_data |-> << <<"raw_prompt", LongStr>>, <<"products", PyList>> >>,
      output_data |-> << <<"analysis", PyDict>> >>,
      insights |-> Insights(4)],
     [analysis_type |-> "manual_json_processing",
      input_data |-> << >>,
      output_data |-> << >>,
      insights |-> Insights(0)]}

NextEM ==
    \E c \in Clients, a \in EpisodicChoices :
        /\ utcnow <= MaxEpisodicStores
        /\ store_episodic(c, a.analysis_type, a.input_data, a.output_data,
                          a.insights)
        /\ UNCHANGED <<wqvars, rqvars, ltmvars, stvars, mgvars, appvars, stepvars>>

(***************************************************************************)
(* ShortTermMemory                                                          *)
(***************************************************************************)
\* Strings that take part in a concatenation are sequences of their pieces.
StClients == {<<"a">>}
StKeys == {<<"k">>, <<"k", "2">>}

\* f"memory:{client_id}:{key}"
_make_key(client_id, key) == <<"memory", ":">> \o client_id \o <<":">> \o key

\* more Python values: a tuple and a datetime
PyTuple == [type |-> "tuple", len |-> 2, text |-> "verbatim"]
PyDatetime == [type |-> "datetime", len |-> 0, text |-> "verbatim"]

\* the values stored: the dict of test_store_and_retrieve, a dict that holds
\* a tuple, a dict that holds a datetime
StValues ==
    {<< <<"data", ShortStr>>, <<"number", PyInt>> >>,
     << <<"pair", PyTuple>> >>,
     << <<"when", PyDatetime>> >>}

\* json.dumps of one value: tuples and lists are written as arrays
json_encode(v) ==
    IF v.type \in {"tuple", "list"}
    THEN [json |-> "array", len |-> v.len, text |-> v.text]
    ELSE IF v.type = "dict"
    THEN [json |-> "object", len |-> v.len, text |-> v.text]
    ELSE IF v.type = "int"
    THEN [json |-> "number", len |-> v.len, text |-> v.text]
    ELSE [json |-> "string", len |-> v.len, text |-> v.text]

\* json.dumps(value) raises TypeError on an object that is not serializable
Serializable(value) ==
    \A i \in DOMAIN value :
        value[i][2].type \in {"int", "str", "list", "tuple", "dict"}

json_dumps(value) ==
    [i \in DOMAIN value |-> <<value[i][1], json_encode(value[i][2])>>]

\* json.loads of one value: an array is read as a list
json_decode(j) ==
    [type |-> IF j.json = "array" THEN "list"
              ELSE IF j.json = "object" THEN "dict"
              ELSE IF j.json = "number" THEN "int"
              ELSE "str",
     len |-> j.len, text |-> j.text]

json_loads(data) ==
    [i \in DOMAIN data |-> <<data[i][1], json_decode(data[i][2])>>]

\* the ttl argument: None, or a number of seconds
NoTtl == [given |-> FALSE, seconds |-> 0]
Ttl(n) == [given |-> TRUE, seconds |-> n]
TtlChoices == {NoTtl, Ttl(0), Ttl(1), Ttl(2)}

\* "ttl or config.REDIS_TTL": None and 0 are both false
ttl_or_default(ttl) ==
    IF ~ttl.given \/ ttl.seconds = 0 THEN RedisTTL ELSE ttl.seconds

\* ShortTermMemory(): not available, over an empty database
InitSTM ==
    /\ st_available = FALSE
    /\ redis = <<>>
    /\ redis_time = 0
    /\ st_log = <<>>
    /\ st_calls = 0

\* ShortTermMemory.initialize(): the ping succeeds or raises
initialize_short_term(connected) ==
    /\ st_available' = connected
    /\ UNCHANGED <<redis, redis_time, st_log, st_calls>>

\* SETEX key seconds data: Redis refuses an expiry that is not positive
setex(db, redis_key, seconds, data) ==
    IF seconds <= 0
    THEN db
    ELSE Put(db, redis_key, [data |-> data, expires_at |-> redis_time + seconds])

\* GET key: the data unless the key is absent or has expired
Live(db, redis_key) ==
    redis_key \in DOMAIN db /\ redis_time < db[redis_key].expires_at

\* ShortTermMemory.store(client_id, key, value, ttl); an exception of
\* json.dumps or of the backend call is caught and logged
store_short_term(client_id, key, value, ttl) ==
    /\ st_calls' = st_calls + 1
    /\ st_log' = Put(st_log, <<client_id, key>>,
                     [value |-> value, ttl |-> ttl, at |-> redis_time,
                      available |-> st_available])
    /\ redis' = IF st_available /\ Serializable(value)
                THEN setex(redis, _make_key(client_id, key),
                           ttl_or_default(ttl), json_dumps(value))
                ELSE redis
    /\ UNCHANGED <<st_available, redis_time>>

NotFound == [found |-> FALSE, value |-> <<>>]

\* ShortTermMemory.retrieve(client_id, key) over database db; an exception
\* of the backend call is caught and None returned
retrieve_short_term(db, client_id, key, backend_ok) ==
    IF st_available /\ backend_ok /\ Live(db, _make_key(client_id, key))
    THEN [found |-> TRUE,
          value |-> json_loads(db[_make_key(client_id, key)].data)]
    ELSE NotFound

\* ShortTermMemory.delete(client_id, key)
delete_short_term(client_id, key) ==
    /\ st_calls' = st_calls + 1
    /\ redis' = IF st_available
                THEN Drop(redis, _make_key(client_id, key)) ELSE redis
    /\ st_log' = Drop(st_log, <<client_id, key>>)
    /\ UNCHANGED <<st_available, redis_time>>

\* a second passes on the Redis server; expired keys are gone
RedisTick ==
    /\ redis_time < MaxRedisTime
    /\ redis_time' = redis_time + 1
    /\ redis' = [k \in {x \in DOMAIN redis : redis_time + 1 < redis[x].expires_at}
                   |-> redis[k]]
    /\ UNCHANGED <<st_available, st_log, st_calls>>

NextSTM ==
    \/ \E connected \in BOOLEAN :
          /\ initialize_short_term(connected)
          /\ UNCHANGED <<wqvars, rqvars, ltmvars, emvars, mgvars, appvars, stepvars>>
    \/ \E c \in StClients, k \in StKeys, v \in StValues, ttl \in TtlChoices :
          /\ st_calls < MaxStCalls
          /\ store_short_term(c, k, v, ttl)
          /\ UNCHANGED <<wqvars, rqvars, ltmvars, emvars, mgvars, appvars, stepvars>>
    \/ \E c \in StClients, k \in StKeys :
          /\ st_calls < MaxStCalls
          /\ delete_short_term(c, k)
          /\ UNCHANGED <<wqvars, rqvars, ltmvars, emvars, mgvars, appvars, stepvars>>
    \/ RedisTick /\ UNCHANGED <<wqvars, rqvars, ltmvars, emvars, mgvars, appvars, stepvars>>

(***************************************************************************)
(* MemoryManager                                                            *)
(***************************************************************************)
\* MemoryManager(): the three memories as constructed
InitMM ==
    /\ initialized = FALSE
    /\ raised = FALSE
    /\ skipped = 0

\* what a backend call raises when it fails, and CancelledError for contrast
BackendErrors == {"ConnectionError", "TimeoutError", "PostgresError"}
\* "except Exception": every error of a backend call is one
Caught(exc) == exc # "CancelledError"

\* MemoryManager.initialize(): both initialize() calls under gather, once
mm_initialize(short_term_ok, long_term_ok) ==
    /\ ~initialized
    /\ initialized' = TRUE
    /\ initialize_short_term(short_term_ok)
    /\ initialize(long_term_ok)
    /\ UNCHANGED <<raised, skipped>>

\* a call counts as skipped when its backend is not available
Skip(available) ==
    /\ available \/ skipped < MaxSkipped
    /\ skipped' = IF available THEN skipped ELSE skipped + 1
    /\ UNCHANGED <<initialized, raised>>

\* MemoryManager.store_long_term(client_id, key, value, source_analysis)
store_long_term(client_id, key, value, source_analysis) ==
    /\ store(client_id, key,
             IF source_analysis # ""
             THEN Append(value, <<"_source", source_analysis>>)
             ELSE value)
    /\ Skip(is_available)

\* the statements of LongTermMemory.store that call the backend, in order
StoreCalls == <<"acquire", "select_existing", "select_count", "delete_oldest",
                "insert">>

\* LongTermMemory.store on an available memory when the backend call
\* StoreCalls[failed_call] raises exc: the statements before it have run, each
\* committed on its own, and the except clause logs the error
store_failing(client_id, key, value, failed_call, exc) ==
    LET insight_key == <<key, insight_hash(value)>>
        mine == {r \in memories : r.client_id = client_id}
        existing == {r \in mine : r.key = insight_key}
        count == Cardinality(mine)
        reached == \/ failed_call <= 2
                   \/ existing = {} /\ failed_call = 3
                   \/ existing = {} /\ failed_call = 4
                          /\ count >= MaxMemoriesPerClient
                   \/ existing = {} /\ failed_call = 5
    IN
    /\ is_available /\ ~HoldsRawData(value) /\ reached
    /\ skipped < MaxSkipped
    /\ skipped' = skipped + 1
    /\ raised' = (raised \/ ~Caught(exc))
    /\ memories' = IF failed_call = 5 /\ count >= MaxMemoriesPerClient
                   THEN memories \ Oldest(mine, EvictLimit)
                   ELSE memories
    /\ UNCHANGED <<is_available, serial, inserted, refused, initialized>>

\* LIMIT 50
SearchLimit == 50

\* "ORDER BY created_at DESC" over rows, each as the dict search builds
RECURSIVE NewestFirst(_)
NewestFirst(rows) ==
    IF rows = {}
    THEN <<>>
    ELSE LET r == CHOOSE x \in rows : \A y \in rows : y.id <= x.id IN
         <<[key |-> r.key, value |-> r.value, created_at |-> r.id]>>
            \o NewestFirst(rows \ {r})

\* LongTermMemory.search(client_id, memory_type) over table rows; every row
\* was inserted with memory_type "insight"; an exception of the backend call
\* is caught and [] returned
search(rows, client_id, memory_type, backend_ok) ==
    IF ~is_available \/ ~backend_ok \/ memory_type # "insight"
    THEN <<>>
    ELSE FirstSlice(NewestFirst({r \in rows : r.client_id = client_id}),
                    SearchLimit)

\* LongTermMemory.retrieve(client_id, key) over table rows: the value of the
\* newest row whose key column equals the argument
retrieve_long_term(rows, client_id, key_column, backend_ok) ==
    LET found == search({r \in rows : r.key = key_column}, client_id,
                        "insight", backend_ok)
    IN IF found = <<>>
       THEN NotFound
       ELSE [found |-> TRUE, value |-> found[1].value]

\* get_episodic_summary(client_id) with max_entries left to its default
DefaultMaxEntries == 10
\* "insights[:5]"
RecentInsights == 5

\* MemoryManager.get_ai_context(client_id)
get_ai_context(client_id, backend_ok) ==
    [episodic_summary |-> get_summary(episodic, client_id, DefaultMaxEntries),
     recent_insights |->
        IF is_available
        THEN FirstSlice(search(memories, client_id, "insight", backend_ok),
                        RecentInsights)
        ELSE <<>>]

\* the values passed to store_long_term
MMValuesOffered ==
    {Insight(serial), RawData(serial), NestedRawData(serial)}

NextMM ==
    \/ \E a, b \in BOOLEAN :
          /\ mm_initialize(a, b)
          /\ UNCHANGED <<wqvars, rqvars, emvars, redis, redis_time, st_log,
                         st_calls, appvars, stepvars>>
    \/ \E v \in MMValuesOffered, source \in {"", "keyword_analysis"} :
          /\ serial <= MaxSerial
          /\ store_long_term("a", "k1", v, source)
          /\ \A r, q \in SideRows(memories') : r = q
          /\ UNCHANGED <<wqvars, rqvars, emvars, stvars, appvars, stepvars>>
    \/ \E failed_call \in DOMAIN StoreCalls, exc \in BackendErrors :
          /\ store_failing("a", "k1", Insight(serial), failed_call, exc)
          /\ UNCHANGED <<wqvars, rqvars, emvars, stvars, appvars, stepvars>>
    \/ \E v \in StValues, backend_ok \in BOOLEAN :
          /\ st_calls < MaxMMShortTerm
          /\ IF backend_ok
             THEN store_short_term(<<"a">>, <<"k">>, v, NoTtl)
             ELSE /\ st_calls' = st_calls + 1
                  /\ UNCHANGED <<st_available, redis, redis_time, st_log>>
          /\ Skip(st_available /\ backend_ok)
          /\ UNCHANGED <<wqvars, rqvars, ltmvars, emvars, appvars, stepvars>>
    \/ \E a \in EpisodicChoices :
          /\ utcnow <= MaxMMEpisodic
          /\ store_episodic("a", a.analysis_type, a.input_data, a.output_data,
                            a.insights)
          /\ UNCHANGED <<wqvars, rqvars, ltmvars, stvars, mgvars, appvars, stepvars>>

\* AmazonAgent(): no retry handler has run
InitApp == resubmitted = {}

\* a consumer that is not inside dequeue()
Idle == [pc |-> "idle", task_id |-> None,
         task |-> [status |-> "none", priority |-> 0, dependencies |-> {},
                   created_at |-> 0, attempts |-> 0]]

\* a caller that is not inside LongTermMemory.store()
NotStoring == [pc |-> "idle", client_id |-> "", key |-> "", value |-> <<>>,
               count |-> 0]

\* no call of a function decorated with async_retry has been made
NotCalled == [pc |-> "idle", func |-> "",
              max_retries |-> [given |-> FALSE, n |-> 0],
              max_tries |-> 0, attempt |-> 0,
              exceptions |-> {}, raised |-> <<>>, network_failure |-> FALSE,
              result |-> ""]

\* no call of dequeue, of store, or of a decorated function is in progress
\* or has been made
InitCalls ==
    /\ consumers = [c \in 1..MaxConsumers |-> Idle]
    /\ returned = [id \in TaskIds |-> 0]
    /\ storers = [c \in 1..MaxStorers |-> NotStoring]
    /\ offered = 1
    /\ wrapper = NotCalled
    /\ last_call = [made |-> FALSE, client_id |-> <<>>, args |-> "",
                    executed |-> FALSE, returned |-> <<>>]

Init ==
    /\ InitWQ /\ InitRQ /\ InitLTM /\ InitEM /\ InitSTM /\ InitMM /\ InitApp
    /\ InitCalls

\* _store_operation: json.dump to <id>.json; a TypeError of json.dump is
\* caught and logged, and leaves the file truncated
_store_operation(f, id, operation) ==
    Put(f, id, IF operation.data.ser
               THEN [ok |-> TRUE, operation |-> operation]
               ELSE Truncated)

\* _load_operations: every parsable <id>.json becomes a pending operation, one
\* that is already due is rescheduled to now; dead letters live in the
\* dead_letters subdirectory, which os.listdir(storage_path) does not descend
LoadedIds(f) == {id \in DOMAIN f : f[id].ok}

_load_operations(f, t) ==
    [id \in LoadedIds(f) |->
        IF t < f[id].operation.next_retry_at
        THEN f[id].operation
        ELSE [f[id].operation EXCEPT !.next_retry_at = t]]

\* _load_operations renames a file it cannot parse to corrupted_<name>
AfterLoad(f) == [id \in LoadedIds(f) |-> f[id]]

\* every pending operation taken as ready, whatever its next_retry_at
ready_operations_all(P, t) == DOMAIN P

\* ready_operations of _process_retries
ready_operations(P, t) == {id \in DOMAIN P : P[id].next_retry_at <= t}

\* The tasks that sit in the event loop's ready queue without having run yet.
Created == {t \in ProcIds : tasks[t].pc = "created"}
FreeProcs == {t \in ProcIds : tasks[t].pc = "none"}
\* A coroutine between two awaits runs alone; only a crash can fall there.
InAtomicStep == \E t \in ProcIds : tasks[t].pc = "deadletter"
\* asyncio runs ready callbacks first in, first out
FirstCreated(t) == t \in Created /\ \A u \in Created : t <= u
CanResume(t) == Created = {} /\ ~InAtomicStep

\* the for loop of _process_retries over what is left of ready_operations:
\* break on _stop_processing, else _execute_retry up to its await of the
\* callback; past the loop, asyncio.sleep(0.1)
ForNext(P, batch, stop) ==
    IF batch = {} \/ stop
    THEN {[pc |-> "sleep", cur |-> None, batch |-> {}, pend |-> P]}
    ELSE {[pc |-> "call", cur |-> id, batch |-> batch \ {id},
           pend |-> [P EXCEPT ![id].data._attempt = P[id].attempt]] : id \in batch}

\* a loop that also ends when no operation is ready
WhileTopExitsIdle(P, stop) ==
    IF stop \/ DOMAIN P = {} \/ ready_operations(P, now) = {}
    THEN {[pc |-> "done", cur |-> None, batch |-> {}, pend |-> P]}
    ELSE ForNext(P, ready_operations(P, now), stop)

\* the while loop of _process_retries from its test
WhileTop(P, stop) ==
    IF stop \/ DOMAIN P = {}
    THEN {[pc |-> "done", cur |-> None, batch |-> {}, pend |-> P]}
    ELSE IF ready_operations(P, now) = {}
         THEN {[pc |-> "sleep", cur |-> None, batch |-> {}, pend |-> P]}
         ELSE ForNext(P, ready_operations(P, now), stop)

\* the task moves to outcome o; leaving the loop runs the finally clause
Continue(t, o) ==
    /\ tasks' = [tasks EXCEPT ![t] = [pc |-> o.pc, cur |-> o.cur,
                                      batch |-> o.batch, cancel |-> FALSE,
                                      operation |-> NoOperation]]
    /\ pending_tasks' = o.pend
    /\ calls' = IF o.pc = "call"
                THEN [calls EXCEPT ![o.cur] = @ + 1] ELSE calls
    /\ is_processing' = (o.pc # "done")
    /\ _processing_task' = IF o.pc = "done" THEN None ELSE _processing_task

\* asyncio.create_task(self._process_retries())
CreateTask(t) ==
    /\ t \in FreeProcs /\ \A u \in FreeProcs : t <= u
    /\ tasks' = [tasks EXCEPT ![t].pc = "created"]

\* the start test without its stop-flag half
StartsProcessorIgnoringStop(processing_now, stopping) == ~processing_now

\* "if not self.is_processing and not self._stop_processing"
StartsProcessor(processing_now, stopping) == ~processing_now /\ ~stopping

\* a test that takes every name for registered
RegisteredAlways(operation_name, registry) == TRUE

\* "operation_name in self.callbacks"
Registered(operation_name, registry) == operation_name \in registry

\* register_operation(operation_name, callback)
register_operation(operation_name) ==
    /\ ~InAtomicStep
    /\ callbacks' = callbacks \cup {operation_name}
    /\ UNCHANGED <<pending_tasks, rejected, is_processing, _stop_processing,
                   _processing_task, tasks, files, dead_letters, now,
                   next_uuid, stop_wait, crashes, stops, submitted, calls,
                   fails, exhausted, reloaded, dl_at_load>>

\* enqueue_failed_operation under a name that has no handler: QueueError is
\* raised before anything else is done
SubmitUnregistered(operation_name) ==
    /\ ~InAtomicStep
    /\ ~Registered(operation_name, callbacks)
    /\ rejected < MaxRejected
    /\ rejected' = rejected + 1
    /\ UNCHANGED <<pending_tasks, callbacks, is_processing, _stop_processing,
                   _processing_task, tasks, files, dead_letters, now,
                   next_uuid, stop_wait, crashes, stops, submitted, calls,
                   fails, exhausted, reloaded, dl_at_load>>

\* enqueue_failed_operation(operation_name, data, error, max_attempts,
\* next_retry_at) with a registered operation_name
Submit(operation_name, max_attempts, data, delay) ==
    LET id == next_uuid
        attempt_count == IF data._attempt = NoAttempt THEN 0 ELSE data._attempt
        next_retry_at == IF delay = None
                         THEN now + backoff_minutes(attempt_count)
                         ELSE now + delay
        operation == [attempt |-> attempt_count + 1,
                      max_attempts |-> max_attempts,
                      next_retry_at |-> next_retry_at,
                      data |-> data]
    IN
    /\ ~InAtomicStep
    /\ Registered(operation_name, callbacks)
    /\ id \in OpIds
    /\ next_uuid' = id + 1
    /\ files' = _store_operation(files, id, operation)
    /\ pending_tasks' = Put(pending_tasks, id, operation)
    /\ submitted' = Put(submitted, id,
                        [name |-> operation_name,
                         max_attempts |-> max_attempts,
                         _attempt |-> data._attempt,
                         next_retry_at |-> delay])
    /\ IF StartsProcessor(is_processing, _stop_processing)
       THEN \E t \in ProcIds : CreateTask(t) /\ _processing_task' = t
       ELSE UNCHANGED <<tasks, _processing_task>>
    /\ UNCHANGED <<callbacks, rejected,
                   is_processing, _stop_processing, dead_letters, now,
                   stop_wait, crashes, stops, calls, fails, exhausted,
                   reloaded, dl_at_load>>

\* a caller runs _process_retries() as a task of its own at startup
StartProcessor ==
    /\ \A t \in ProcIds : tasks[t].pc = "none"
    /\ DOMAIN pending_tasks = {}
    /\ \E t \in ProcIds : CreateTask(t)
    /\ UNCHANGED <<callbacks, rejected,
                   pending_tasks, is_processing, _stop_processing,
                   _processing_task, files, dead_letters, now, next_uuid,
                   stop_wait, crashes, stops, calls, submitted, fails, exhausted,
                   reloaded, dl_at_load>>

\* whether _process_retries loads from disk: "if not self.pending_tasks"
LoadsOnStart(P) == DOMAIN P = {}

\* a guard that lets every task into the loop
ReturnsAtOnceNever(processing_now) == FALSE

\* "if self.is_processing: return"
ReturnsAtOnce(processing_now) == processing_now

\* first step of a _process_retries task: return if a loop is running, else
\* take the loop over, load if nothing is pending, and run to the first await
TaskStart(t) ==
    /\ FirstCreated(t) /\ ~tasks[t].cancel /\ ~InAtomicStep
    /\ IF ReturnsAtOnce(is_processing)
       THEN /\ tasks' = [tasks EXCEPT ![t].pc = "done"]
            /\ UNCHANGED <<pending_tasks, is_processing, _stop_processing,
                           _processing_task, files, calls, reloaded,
                           dl_at_load>>
       ELSE LET load == LoadsOnStart(pending_tasks)
                P == IF load THEN _load_operations(files, now)
                     ELSE pending_tasks
            IN
            /\ _stop_processing' = FALSE
            /\ files' = IF load THEN AfterLoad(files) ELSE files
            /\ reloaded' = IF load
                           THEN reloaded \cup
                                {id \in DOMAIN P : now < P[id].next_retry_at}
                           ELSE reloaded
            /\ dl_at_load' = IF load
                             THEN dl_at_load \cup {d.id : d \in dead_letters}
                             ELSE dl_at_load
            /\ \E o \in WhileTop(P, FALSE) : Continue(t, o)
    /\ UNCHANGED <<callbacks, rejected,
                   dead_letters, now, next_uuid, stop_wait, crashes, stops,
                   submitted, fails, exhausted>>

\* the loop wakes from asyncio.sleep(5) / asyncio.sleep(0.1) and tests the
\* while condition again
LoopWake(t) ==
    /\ tasks[t].pc = "sleep" /\ ~tasks[t].cancel /\ CanResume(t)
    /\ \E o \in WhileTop(pending_tasks, _stop_processing) : Continue(t, o)
    /\ UNCHANGED <<callbacks, rejected,
                   _stop_processing, files, dead_letters, now, next_uuid,
                   stop_wait, crashes, stops, submitted, fails, exhausted, reloaded,
                   dl_at_load>>

\* _remove_operation: out of pending_tasks and off the disk
_remove_operation_mem(P, id) == Drop(P, id)
\* a removal that leaves the file behind
_remove_operation_disk_kept(f, id) == f
_remove_operation_disk(f, id) == Drop(f, id)

\* the callback returns: _execute_retry removes the operation and the for
\* loop goes on
HandlerReturns(t) ==
    /\ tasks[t].pc = "call" /\ ~tasks[t].cancel /\ CanResume(t)
    /\ files' = _remove_operation_disk(files, tasks[t].cur)
    /\ \E o \in ForNext(_remove_operation_mem(pending_tasks, tasks[t].cur),
                        tasks[t].batch, _stop_processing) : Continue(t, o)
    /\ UNCHANGED <<callbacks, rejected,
                   _stop_processing, dead_letters, now, next_uuid, stop_wait,
                   crashes, stops, submitted, fails, exhausted, reloaded, dl_at_load>>

\* the budget test with > for >=
GivesUpLate(operation) == operation.attempt > operation.max_attempts

\* "if operation['attempt'] >= operation['max_attempts']"
GivesUp(operation) == operation.attempt >= operation.max_attempts

\* the operation as rescheduled by the except branch of _execute_retry
Rescheduled(operation, t) ==
    [operation EXCEPT !.attempt = @ + 1,
                      !.next_retry_at = t + backoff_minutes(operation.attempt)]

\* the callback raises and attempts are left: reschedule with backoff, store,
\* and the for loop goes on
HandlerRaisesRetry(t) ==
    LET id == tasks[t].cur
        op == Rescheduled(pending_tasks[id], now)
    IN
    /\ tasks[t].pc = "call" /\ ~tasks[t].cancel /\ CanResume(t)
    /\ ~GivesUp(pending_tasks[id])
    /\ fails' = [fails EXCEPT ![id] = @ + 1]
    /\ files' = _store_operation(files, id, op)
    /\ \E o \in ForNext([pending_tasks EXCEPT ![id] = op],
                        tasks[t].batch, _stop_processing) : Continue(t, o)
    /\ UNCHANGED <<callbacks, rejected,
                   _stop_processing, dead_letters, now, next_uuid, stop_wait,
                   crashes, stops, submitted, exhausted, reloaded, dl_at_load>>

\* the callback raises and no attempt is left: _remove_operation first
HandlerRaisesGiveUp(t) ==
    LET id == tasks[t].cur IN
    /\ tasks[t].pc = "call" /\ ~tasks[t].cancel /\ CanResume(t)
    /\ GivesUp(pending_tasks[id])
    /\ fails' = [fails EXCEPT ![id] = @ + 1]
    /\ exhausted' = exhausted \cup {id}
    /\ files' = _remove_operation_disk(files, id)
    /\ pending_tasks' = _remove_operation_mem(pending_tasks, id)
    /\ tasks' = [tasks EXCEPT ![t].pc = "deadletter",
                              ![t].operation = pending_tasks[id]]
    /\ UNCHANGED <<callbacks, rejected,
                   is_processing, _stop_processing, _processing_task,
                   dead_letters, now, next_uuid, stop_wait, crashes, stops,
                   submitted, calls, reloaded, dl_at_load>>

\* _store_dead_letter: dead_letters/<id>_<time>.json, truncated when the
\* payload does not serialise
_store_dead_letter(D, id, operation, t) ==
    D \cup {[id |-> id, failed_at |-> t, ok |-> operation.data.ser]}

\* an error of _execute_retry that leaves the loop
ExceptInLoopLeaves == "done"

\* "except Exception as e" around _execute_retry in the for loop: the error
\* is logged and the loop sleeps a second
ExceptInLoop == "errsleep"

\* ... then _store_dead_letter, and RetryExhaustedError is caught by the for
\* loop, which sleeps a second
DeadLetter(t) ==
    /\ tasks[t].pc = "deadletter"
    /\ dead_letters' = _store_dead_letter(dead_letters, tasks[t].cur,
                                          tasks[t].operation, now)
    /\ tasks' = [tasks EXCEPT ![t].pc = ExceptInLoop,
                              ![t].operation = NoOperation]
    /\ UNCHANGED <<callbacks, rejected,
                   pending_tasks, is_processing, _stop_processing,
                   _processing_task, files, now, next_uuid, stop_wait,
                   crashes, stops, calls, submitted, fails, exhausted, reloaded,
                   dl_at_load>>

\* the loop wakes from asyncio.sleep(1) and the for loop goes on
ErrorWake(t) ==
    /\ tasks[t].pc = "errsleep" /\ ~tasks[t].cancel /\ CanResume(t)
    /\ \E o \in ForNext(pending_tasks, tasks[t].batch, _stop_processing) :
          Continue(t, o)
    /\ UNCHANGED <<callbacks, rejected,
                   _stop_processing, files, dead_letters, now, next_uuid,
                   stop_wait, crashes, stops, submitted, fails, exhausted, reloaded,
                   dl_at_load>>

\* stop_processing() up to its await: set the flag, cancel the task that
\* _processing_task names unless it is done
StopProcessing ==
    /\ ~InAtomicStep /\ stop_wait = None /\ stops < MaxStops
    /\ stops' = stops + 1
    /\ _stop_processing' = TRUE
    /\ IF _processing_task # None /\ tasks[_processing_task].pc # "done"
       THEN /\ tasks' = [tasks EXCEPT ![_processing_task].cancel = TRUE]
            /\ stop_wait' = _processing_task
       ELSE UNCHANGED <<tasks, stop_wait>>
    /\ UNCHANGED <<callbacks, rejected,
                   pending_tasks, is_processing, _processing_task, files,
                   dead_letters, now, next_uuid, crashes, calls, submitted, fails,
                   exhausted, reloaded, dl_at_load>>

\* a cancellation handled like a last failure of the handler: record removed
AfterCancelRemoved(f, id) == Drop(f, id)

\* CancelledError raised in "await callback(...)" is no Exception: the except
\* branch of _execute_retry does not run and the record stays as it is
AfterCancel(f, id) == f

\* CancelledError reaches the task: one that never ran ends without running;
\* one that waits in a sleep or in the callback leaves through the except
\* CancelledError and finally clauses.  The awaiting stop_processing returns.
TaskCancelled(t) ==
    /\ tasks[t].cancel /\ ~InAtomicStep
    /\ tasks[t].pc \in {"created", "sleep", "call", "errsleep"}
    /\ IF tasks[t].pc = "created"
       THEN FirstCreated(t) /\ UNCHANGED <<is_processing, _processing_task>>
       ELSE Created = {} /\ is_processing' = FALSE /\ _processing_task' = None
    /\ tasks' = [tasks EXCEPT ![t] = [NoTask EXCEPT !.pc = "done"]]
    /\ stop_wait' = IF stop_wait = t THEN None ELSE stop_wait
    /\ files' = IF tasks[t].pc = "call"
                THEN AfterCancel(files, tasks[t].cur) ELSE files
    /\ UNCHANGED <<callbacks, rejected,
                   pending_tasks, _stop_processing, dead_letters, now,
                   next_uuid, crashes, stops, calls, submitted, fails,
                   exhausted, reloaded, dl_at_load>>

\* the process dies and a new one builds RetryQueue() over the same directory
Crash ==
    /\ crashes < MaxCrashes
    /\ crashes' = crashes + 1
    /\ pending_tasks' = <<>>
    /\ is_processing' = FALSE
    /\ _stop_processing' = FALSE
    /\ _processing_task' = None
    /\ tasks' = [t \in ProcIds |-> NoTask]
    /\ stop_wait' = None
    /\ UNCHANGED <<callbacks, rejected,
                   files, dead_letters, now, next_uuid, stops, calls, submitted, fails,
                   exhausted, reloaded, dl_at_load>>

\* the instants at which some stored or pending operation falls due
DueTimes ==
    {pending_tasks[id].next_retry_at : id \in DOMAIN pending_tasks}
    \cup {files[id].operation.next_retry_at : id \in LoadedIds(files)}

\* time passes, up to an instant at which an operation falls due
Tick ==
    /\ ~InAtomicStep
    /\ \E t \in DueTimes :
          now < t /\ t <= MaxTime /\ now' = t
    /\ UNCHANGED <<callbacks, rejected,
                   pending_tasks, is_processing, _stop_processing,
                   _processing_task, tasks, files, dead_letters, next_uuid,
                   stop_wait, crashes, stops, calls, submitted, fails, exhausted,
                   reloaded, dl_at_load>>

TaskStep(t) ==
    \/ TaskStart(t)
    \/ LoopWake(t)
    \/ HandlerReturns(t)
    \/ HandlerRaisesRetry(t)
    \/ HandlerRaisesGiveUp(t)
    \/ DeadLetter(t)
    \/ ErrorWake(t)
    \/ TaskCancelled(t)

NextRQ ==
    \/ \E name \in OperationNames, c \in SubmitChoices :
          Submit(name, c.max_attempts, c.data, c.next_retry_at)
             /\ UNCHANGED <<wqvars, ltmvars, mmvars>>
    \/ StartProcessor /\ UNCHANGED <<wqvars, ltmvars, mmvars>>
    \/ \E t \in ProcIds : TaskStep(t) /\ UNCHANGED <<wqvars, ltmvars, mmvars>>
    \/ StopProcessing /\ UNCHANGED <<wqvars, ltmvars, mmvars>>
    \/ Crash /\ UNCHANGED <<wqvars, ltmvars, mmvars>>
    \/ Tick /\ UNCHANGED <<wqvars, ltmvars, mmvars>>

SpecWQ == Init /\ [][NextWQ]_vars
SpecLTM == Init /\ [][NextLTM]_vars
SpecEM == Init /\ [][NextEM]_vars
SpecSTM == Init /\ [][NextSTM]_vars
SpecMM == Init /\ [][NextMM]_vars
SpecRQ == Init /\ [][NextRQ]_vars

\* The retry queue in a run without stop_processing() and without a crash;
\* the event loop runs every task that is ready, and every handler invocation
\* ends.
LiveTaskStep(t) ==
    \/ TaskStart(t)
    \/ LoopWake(t)
    \/ HandlerReturns(t)
    \/ HandlerRaisesRetry(t)
    \/ HandlerRaisesGiveUp(t)
    \/ DeadLetter(t)
    \/ ErrorWake(t)

NextRQLive ==
    \/ \E name \in OperationNames, c \in SubmitChoices :
          Submit(name, c.max_attempts, c.data, c.next_retry_at)
             /\ UNCHANGED <<wqvars, ltmvars, mmvars>>
    \/ StartProcessor /\ UNCHANGED <<wqvars, ltmvars, mmvars>>
    \/ \E t \in ProcIds : LiveTaskStep(t) /\ UNCHANGED <<wqvars, ltmvars, mmvars>>
    \/ Tick /\ UNCHANGED <<wqvars, ltmvars, mmvars>>

SpecRQLive ==
    /\ Init /\ [][NextRQLive]_vars
    /\ \A t \in ProcIds : WF_vars(LiveTaskStep(t) /\ UNCHANGED <<wqvars, ltmvars, mmvars>>)

\* The retry queue with registrations and submits under any name, in a run
\* without stop_processing() and without a crash.
NextRQReg ==
    \/ \E name \in OperationNames :
          register_operation(name) /\ UNCHANGED <<wqvars, ltmvars, mmvars>>
    \/ \E name \in OperationNames :
          SubmitUnregistered(name) /\ UNCHANGED <<wqvars, ltmvars, mmvars>>
    \/ NextRQLive

SpecRQReg == Init /\ [][NextRQReg]_vars

(***************************************************************************)
(* AmazonAgent: the retry handlers the application registers, with the      *)
(* external service failing at every call.                                  *)
(***************************************************************************)
\* "max_attempts: int = 3"
DefaultMaxAttempts == 3

\* the payload _task_scrape_amazon submits: it carries "_attempt": 0
AppData == [_attempt |-> 0, ser |-> TRUE]

\* a workflow task runs _task_scrape_amazon, the scrape raises
\* ExternalServiceError and the except branch submits the operation
_task_scrape_amazon_fails ==
    /\ Submit("apify_scrape", DefaultMaxAttempts, AppData, None)
    /\ UNCHANGED resubmitted

\* the operation enqueue_failed_operation builds for the except branch of
\* _task_scrape_amazon at instant t
Resubmitted(t) ==
    [attempt |-> AppData._attempt + 1,
     max_attempts |-> DefaultMaxAttempts,
     next_retry_at |-> t + backoff_minutes(AppData._attempt),
     data |-> AppData]

\* what the except branch of _task_scrape_amazon leaves when it runs inside
\* the handler _retry_apify_scrape: one more operation, stored and pending
\* (the loop is running, so no task is created)
_retry_apify_scrape_submits ==
    /\ next_uuid \in AppOpIds
    /\ next_uuid' = next_uuid + 1
    /\ resubmitted' = resubmitted \cup {next_uuid}
    /\ submitted' = Put(submitted, next_uuid,
                        [name |-> "apify_scrape",
                         max_attempts |-> DefaultMaxAttempts,
                         _attempt |-> AppData._attempt,
                         next_retry_at |-> None])

\* _retry_apify_scrape called by _execute_retry with attempts left: the
\* scrape fails, the handler submits a new operation and re-raises; the
\* operation it was called for is rescheduled
_retry_apify_scrape_retry(t) ==
    LET id == tasks[t].cur
        new == next_uuid
        op == Rescheduled(pending_tasks[id], now)
    IN
    /\ tasks[t].pc = "call" /\ ~tasks[t].cancel /\ CanResume(t)
    /\ ~GivesUp(pending_tasks[id])
    /\ _retry_apify_scrape_submits
    /\ fails' = [fails EXCEPT ![id] = @ + 1]
    /\ files' = _store_operation(_store_operation(files, new, Resubmitted(now)),
                                 id, op)
    /\ \E o \in ForNext([Put(pending_tasks, new, Resubmitted(now))
                            EXCEPT ![id] = op],
                        tasks[t].batch, _stop_processing) : Continue(t, o)
    /\ UNCHANGED <<callbacks, rejected, _stop_processing, dead_letters, now,
                   stop_wait, crashes, stops, exhausted, reloaded, dl_at_load>>

\* the same with no attempt left: the operation it was called for is removed
\* and goes to the dead letters, the new one stays
_retry_apify_scrape_give_up(t) ==
    LET id == tasks[t].cur
        new == next_uuid
    IN
    /\ tasks[t].pc = "call" /\ ~tasks[t].cancel /\ CanResume(t)
    /\ GivesUp(pending_tasks[id])
    /\ _retry_apify_scrape_submits
    /\ fails' = [fails EXCEPT ![id] = @ + 1]
    /\ exhausted' = exhausted \cup {id}
    /\ files' = _remove_operation_disk(
                    _store_operation(files, new, Resubmitted(now)), id)
    /\ pending_tasks' = _remove_operation_mem(
                            Put(pending_tasks, new, Resubmitted(now)), id)
    /\ tasks' = [tasks EXCEPT ![t].pc = "deadletter",
                              ![t].operation = pending_tasks[id]]
    /\ UNCHANGED <<callbacks, rejected, is_processing, _stop_processing,
                   _processing_task, dead_letters, now, stop_wait, crashes,
                   stops, calls, reloaded, dl_at_load>>

\* the steps of the background loop when the handler is _retry_apify_scrape
AppTaskStep(t) ==
    \/ (TaskStart(t) \/ LoopWake(t) \/ DeadLetter(t) \/ ErrorWake(t))
          /\ UNCHANGED resubmitted
    \/ _retry_apify_scrape_retry(t)
    \/ _retry_apify_scrape_give_up(t)

NextRQApp ==
    \/ _task_scrape_amazon_fails
          /\ UNCHANGED <<wqvars, ltmvars, emvars, stvars, mgvars, stepvars>>
    \/ \E t \in ProcIds :
          AppTaskStep(t) /\ UNCHANGED <<wqvars, ltmvars, emvars, stvars, mgvars, stepvars>>
    \/ Tick /\ UNCHANGED <<wqvars, ltmvars, emvars, stvars, mgvars, appvars, stepvars>>

SpecRQApp == Init /\ [][NextRQApp]_vars

(***************************************************************************)
(* WorkflowQueue.dequeue, one Redis command at a time, run by consumers     *)
(* that share the database                                                  *)
(***************************************************************************)
\* "task_ids = self.redis.zrange(self.queue_key, -1, -1)"; on an empty queue
\* dequeue returns None
dequeue_zrange(c) ==
    /\ consumers[c].pc = "idle"
    /\ \E task_id \in ZTop(queue) :
          consumers' = [consumers EXCEPT ![c] =
                           [pc |-> "hget", task_id |-> task_id, task |-> Idle.task]]
    /\ UNCHANGED <<wqvars, returned>>

\* "task_data = self.redis.hget(self.results_key, task_id)"; None is
\* returned when the hash has no such field
dequeue_hget(c) ==
    /\ consumers[c].pc = "hget"
    /\ consumers' = [consumers EXCEPT ![c] =
                        IF consumers[c].task_id \in DOMAIN results
                        THEN [@ EXCEPT !.pc = "hset",
                                       !.task = results[consumers[c].task_id]]
                        ELSE Idle]
    /\ UNCHANGED <<wqvars, returned>>

\* task["status"] = "processing" and the hset of the task
dequeue_hset(c) ==
    /\ consumers[c].pc = "hset"
    /\ results' = Put(results, consumers[c].task_id,
                      [consumers[c].task EXCEPT !.status = "processing"])
    /\ consumers' = [consumers EXCEPT ![c].pc = "zrem"]
    /\ UNCHANGED <<queue, processing, returned>>

\* "self.redis.zrem(self.queue_key, task_id)"
dequeue_zrem(c) ==
    /\ consumers[c].pc = "zrem"
    /\ queue' = Drop(queue, consumers[c].task_id)
    /\ consumers' = [consumers EXCEPT ![c].pc = "sadd"]
    /\ UNCHANGED <<results, processing, returned>>

\* "self.redis.sadd(self.processing_key, task_id)" and "return task"
dequeue_sadd(c) ==
    /\ consumers[c].pc = "sadd"
    /\ processing' = processing \cup {consumers[c].task_id}
    /\ returned' = [returned EXCEPT ![consumers[c].task_id] = @ + 1]
    /\ consumers' = [consumers EXCEPT ![c] = Idle]
    /\ UNCHANGED <<results, queue>>

\* producers enqueue while the consumers run dequeue
NextWQConsumers ==
    \/ \E id \in TaskIds, p \in PriorityChoices :
          /\ enqueue(id, p, {})
          /\ UNCHANGED <<rqvars, ltmvars, emvars, stvars, mgvars, appvars, consumers, returned,
                         storers, offered, wrapper, last_call>>
    \/ \E c \in 1..MaxConsumers :
          /\ dequeue_zrange(c)
          /\ UNCHANGED <<rqvars, ltmvars, emvars, stvars, mgvars, appvars, storers, offered,
                         wrapper, last_call>>
    \/ \E c \in 1..MaxConsumers :
          /\ dequeue_hget(c)
          /\ UNCHANGED <<rqvars, ltmvars, emvars, stvars, mgvars, appvars, storers, offered,
                         wrapper, last_call>>
    \/ \E c \in 1..MaxConsumers :
          /\ dequeue_hset(c)
          /\ UNCHANGED <<rqvars, ltmvars, emvars, stvars, mgvars, appvars, storers, offered,
                         wrapper, last_call>>
    \/ \E c \in 1..MaxConsumers :
          /\ dequeue_zrem(c)
          /\ UNCHANGED <<rqvars, ltmvars, emvars, stvars, mgvars, appvars, storers, offered,
                         wrapper, last_call>>
    \/ \E c \in 1..MaxConsumers :
          /\ dequeue_sadd(c)
          /\ UNCHANGED <<rqvars, ltmvars, emvars, stvars, mgvars, appvars, storers, offered,
                         wrapper, last_call>>

SpecWQConsumers == Init /\ [][NextWQConsumers]_vars

(***************************************************************************)
(* LongTermMemory.store, one SQL statement at a time, run by callers that   *)
(* share the table; each statement commits on its own                       *)
(***************************************************************************)
\* store(client_id, key, value) up to "async with self.pool.acquire()": the
\* call returns at once when the memory is not available or the value holds
\* raw data
store_begin(c, client_id, key, value) ==
    /\ storers[c].pc = "idle"
    /\ offered <= MaxOffered
    /\ offered' = offered + 1
    /\ storers' = [storers EXCEPT ![c] =
                      IF ~is_available \/ HoldsRawData(value)
                      THEN NotStoring
                      ELSE [pc |-> "select_existing", client_id |-> client_id,
                            key |-> <<key, insight_hash(value)>>,
                            value |-> value, count |-> 0]]
    /\ UNCHANGED ltmvars

\* "SELECT id FROM memories WHERE client_id = $1 AND key = $2" and
\* "if existing: return"
store_select_existing(c) ==
    LET existing == {r \in {r \in memories : r.client_id = storers[c].client_id} :
                        r.key = storers[c].key}
    IN
    /\ storers[c].pc = "select_existing"
    /\ storers' = [storers EXCEPT ![c] =
                      IF existing # {} THEN NotStoring
                      ELSE [@ EXCEPT !.pc = "select_count"]]
    /\ UNCHANGED <<ltmvars, offered>>

\* "SELECT COUNT(*) FROM memories WHERE client_id = $1"
store_select_count(c) ==
    /\ storers[c].pc = "select_count"
    /\ storers' = [storers EXCEPT
                      ![c].count =
                          Cardinality({r \in memories :
                                          r.client_id = storers[c].client_id}),
                      ![c].pc = "delete_oldest"]
    /\ UNCHANGED <<ltmvars, offered>>

\* "if count >= config.MAX_MEMORIES_PER_CLIENT: DELETE ... LIMIT 10"
store_delete_oldest(c) ==
    /\ storers[c].pc = "delete_oldest"
    /\ memories' = IF storers[c].count >= MaxMemoriesPerClient
                   THEN memories \ Oldest({r \in memories : r.client_id = storers[c].client_id},
                                          EvictLimit)
                   ELSE memories
    /\ storers' = [storers EXCEPT ![c].pc = "insert"]
    /\ UNCHANGED <<is_available, serial, inserted, refused, offered>>

\* "INSERT ... ON CONFLICT (client_id, memory_type, key) DO UPDATE SET
\* value = $4"
store_insert(c) ==
    LET conflict == {r \in {r \in memories : r.client_id = storers[c].client_id} :
                        r.key = storers[c].key}
        row == [id |-> serial, client_id |-> storers[c].client_id,
                key |-> storers[c].key, value |-> storers[c].value]
    IN
    /\ storers[c].pc = "insert"
    /\ memories' = IF conflict # {}
                   THEN (memories \ conflict)
                           \cup {[r EXCEPT !.value = storers[c].value] :
                                    r \in conflict}
                   ELSE memories \cup {row}
    /\ serial' = IF conflict # {} THEN serial ELSE serial + 1
    /\ inserted' = IF conflict # {} THEN inserted
                   ELSE [inserted EXCEPT ![storers[c].client_id] =
                            @ \cup {[id |-> serial,
                                     hash |-> insight_hash(storers[c].value)]}]
    /\ storers' = [storers EXCEPT ![c] = NotStoring]
    /\ UNCHANGED <<is_available, refused, offered>>

\* the rows that earlier runs of the service left in the table: two less
\* than the cap
PriorRows == MaxMemoriesPerClient - 2

\* the service starts over a table that holds rows already
InitLTMCallers ==
    /\ InitWQ /\ InitRQ /\ InitEM /\ InitSTM /\ InitMM /\ InitApp /\ InitCalls
    /\ is_available = FALSE
    /\ memories = {[id |-> n, client_id |-> "a",
                    key |-> <<"k1", insight_hash(Insight(n))>>,
                    value |-> Insight(n)] : n \in 1..PriorRows}
    /\ serial = PriorRows + 1
    /\ inserted = [c \in Clients |->
                     IF c = "a"
                     THEN {[id |-> n, hash |-> insight_hash(Insight(n))] :
                             n \in 1..PriorRows}
                     ELSE {}]
    /\ refused = FALSE

\* the store calls of one client under one key, each with an insight of its
\* own or with the insight of the call before it
NextLTMCallers ==
    \/ initialize(TRUE)
          /\ UNCHANGED <<wqvars, rqvars, emvars, stvars, mgvars, appvars,
                         consumers, returned, storers, offered, wrapper, last_call>>
    \/ \E c \in 1..MaxStorers, n \in {offered - 1, offered} :
          /\ n >= 1
          /\ store_begin(c, "a", "k1", Insight(PriorRows + n))
          /\ UNCHANGED <<wqvars, rqvars, emvars, stvars, mgvars, appvars, consumers, returned,
                         wrapper, last_call>>
    \/ \E c \in 1..MaxStorers :
          /\ store_select_existing(c)
          /\ UNCHANGED <<wqvars, rqvars, emvars, stvars, mgvars, appvars, consumers, returned,
                         wrapper, last_call>>
    \/ \E c \in 1..MaxStorers :
          /\ store_select_count(c)
          /\ UNCHANGED <<wqvars, rqvars, emvars, stvars, mgvars, appvars, consumers, returned,
                         wrapper, last_call>>
    \/ \E c \in 1..MaxStorers :
          /\ store_delete_oldest(c)
          /\ UNCHANGED <<wqvars, rqvars, emvars, stvars, mgvars, appvars, consumers, returned,
                         wrapper, last_call>>
    \/ \E c \in 1..MaxStorers :
          /\ store_insert(c)
          /\ UNCHANGED <<wqvars, rqvars, emvars, stvars, mgvars, appvars, consumers, returned,
                         wrapper, last_call>>

SpecLTMCallers == InitLTMCallers /\ [][NextLTMCallers]_vars

(***************************************************************************)
(* ShortTermMemory under identifiers that hold the separator                *)
(***************************************************************************)
\* client ids and keys as callers may pass them: any string, ":" included
SeparatorClients == {<<"a">>, <<"a", ":", "b">>}
SeparatorKeys == {<<"c">>, <<"b", ":", "c">>}

NextSTMKeys ==
    \/ initialize_short_term(TRUE)
          /\ UNCHANGED <<wqvars, rqvars, ltmvars, emvars, mgvars, appvars, stepvars>>
    \/ \E c \in SeparatorClients, k \in SeparatorKeys, v \in StValues :
          /\ st_calls < MaxStCalls
          /\ store_short_term(c, k, v, NoTtl)
          /\ UNCHANGED <<wqvars, rqvars, ltmvars, emvars, mgvars, appvars, stepvars>>
    \/ \E c \in SeparatorClients, k \in SeparatorKeys :
          /\ st_calls < MaxStCalls
          /\ delete_short_term(c, k)
          /\ UNCHANGED <<wqvars, rqvars, ltmvars, emvars, mgvars, appvars, stepvars>>
    \/ RedisTick
          /\ UNCHANGED <<wqvars, rqvars, ltmvars, emvars, mgvars, appvars, stepvars>>

SpecSTMKeys == Init /\ [][NextSTMKeys]_vars

(***************************************************************************)
(* utils/retry.py: async_retry, and ApifyService.scrape_amazon_search under *)
(* it                                                                       *)
(***************************************************************************)
\* config.MAX_RETRIES
MAX_RETRIES == 3

\* the exception classes that take part, each with its base class
Bases ==
    [e \in {"ClientError", "TimeoutError", "NetworkError",
            "ExternalServiceError", "ValueError"} |-> "Exception"]
    @@ [e \in {"RetryExhaustedError"} |-> "ExternalServiceError"]

\* "except exceptions as e": e is an instance of a listed class or of a
\* class derived from one
isinstance(e, classes) ==
    e \in classes \/ Bases[e] \in classes \/ "Exception" \in classes

\* the max_retries argument of the decorator: None or a number
NoneArg == [given |-> FALSE, n |-> 0]
Arg(n) == [given |-> TRUE, n |-> n]

\* "max_tries = max_retries or config.MAX_RETRIES": None and 0 are both false
max_tries_of(max_retries) ==
    IF ~max_retries.given \/ max_retries.n = 0
    THEN MAX_RETRIES ELSE max_retries.n

\* the body of scrape_amazon_search as left by its except clauses: an error
\* of method 1 is logged and method 2 runs; an error of method 2 is
\* re-raised by _scrape_with_regular_run and translated
scrape_amazon_search(method1, method2) ==
    IF method1 = "ok" \/ method2 = "ok"
    THEN "returned"
    ELSE IF method2 \in {"ClientError", "TimeoutError"}
    THEN "NetworkError"
    ELSE "ExternalServiceError"

\* what an invocation of the decorated function can do: return, or raise;
\* for scrape_amazon_search, what its two HTTP calls do
Behaviours(func) ==
    IF func = "scrape_amazon_search"
    THEN {"ok", "bad_status", "ClientError", "TimeoutError"}
            \X {"ok", "bad_status", "ClientError", "TimeoutError"}
    ELSE {<<"returned">>} \cup {<<e>> : e \in DOMAIN Bases}

Outcome(func, b) ==
    IF func = "scrape_amazon_search"
    THEN scrape_amazon_search(b[1], b[2])
    ELSE b[1]

\* the HTTP call of this invocation failed with a network error
NetworkFailure(func, b) ==
    IF func = "scrape_amazon_search"
    THEN b[1] # "ok" /\ b[2] \in {"ClientError", "TimeoutError"}
    ELSE b[1] \in {"ClientError", "TimeoutError"}

\* one pass of "for attempt in range(max_tries + 1)": the function is
\* invoked; the pass ends at the return, at a raise, or in asyncio.sleep
Iterate(w, outcome, network_failure) ==
    LET w1 == [w EXCEPT !.raised = Append(@, outcome),
                        !.network_failure = network_failure]
    IN
    IF outcome = "returned"
    THEN [w1 EXCEPT !.pc = "done", !.result = "returned"]
    ELSE IF ~isinstance(outcome, w.exceptions)
    THEN [w1 EXCEPT !.pc = "done", !.result = outcome]
    ELSE IF w.attempt = w.max_tries
    THEN [w1 EXCEPT !.pc = "done", !.result = "RetryExhaustedError"]
    ELSE [w1 EXCEPT !.pc = "sleep"]

\* a call of the decorated function, up to the end of the first pass
wrapper_call(func, max_retries, exceptions, b) ==
    /\ wrapper.pc \in {"idle", "done"}
    /\ wrapper' = Iterate([NotCalled EXCEPT !.func = func,
                                            !.max_retries = max_retries,
                                            !.max_tries = max_tries_of(max_retries),
                                            !.exceptions = exceptions],
                          Outcome(func, b), NetworkFailure(func, b))

\* the sleep ends and the next pass runs
wrapper_wake(b) ==
    /\ wrapper.pc = "sleep"
    /\ wrapper' = Iterate([wrapper EXCEPT !.attempt = @ + 1],
                          Outcome(wrapper.func, b),
                          NetworkFailure(wrapper.func, b))

NextRetry ==
    \/ \E n \in {NoneArg, Arg(0), Arg(1), Arg(2)},
          excs \in {{"Exception"}, {"ClientError", "TimeoutError"},
                    {"ExternalServiceError"}},
          b \in Behaviours("func") :
          /\ wrapper_call("func", n, excs, b)
          /\ UNCHANGED <<wqvars, rqvars, ltmvars, emvars, stvars, mgvars,
                         appvars, consumers, returned, storers, offered, last_call>>
    \/ \E b \in Behaviours("scrape_amazon_search") :
          /\ wrapper_call("scrape_amazon_search", NoneArg,
                          {"ClientError", "TimeoutError"}, b)
          /\ UNCHANGED <<wqvars, rqvars, ltmvars, emvars, stvars, mgvars,
                         appvars, consumers, returned, storers, offered, last_call>>
    \/ \E b \in Behaviours(wrapper.func) :
          /\ wrapper_wake(b)
          /\ UNCHANGED <<wqvars, rqvars, ltmvars, emvars, stvars, mgvars,
                         appvars, consumers, returned, storers, offered, last_call>>

SpecRetry == Init /\ [][NextRetry]_vars

(***************************************************************************)
(* utils/retry.py: idempotent_operation over the short-term memory          *)
(***************************************************************************)
\* what the decorated function returns for its arguments: a dict
Result(args) == [type |-> "dict", len |-> 1, text |-> args]

\* d.get(k) on a dict that holds k
Get(d, k) == d[CHOOSE i \in DOMAIN d : d[i][1] = k][2]

\* the wrapper of idempotent_operation(operation_id) called with client_id
\* and arguments args; the decorated function returns
idempotent_call(operation_id, client_id, args) ==
    LET completed_key == <<"completed_", operation_id>>
        completed == retrieve_short_term(redis, client_id, completed_key, TRUE)
    IN
    IF completed.found /\ completed.value # <<>>
    THEN /\ last_call' = [made |-> TRUE, client_id |-> client_id,
                          args |-> args, executed |-> FALSE,
                          returned |-> Get(completed.value, "result")]
         /\ UNCHANGED stvars
    ELSE /\ last_call' = [made |-> TRUE, client_id |-> client_id,
                          args |-> args, executed |-> TRUE,
                          returned |-> Result(args)]
         /\ store_short_term(client_id, completed_key,
                             << <<"operation_id", ShortStr>>,
                                <<"completed_at", ShortStr>>,
                                <<"result", Result(args)>> >>,
                             Ttl(RedisTTL))

NextIdempotent ==
    \/ \E connected \in BOOLEAN :
          /\ initialize_short_term(connected)
          /\ UNCHANGED <<wqvars, rqvars, ltmvars, emvars, mgvars, appvars,
                         consumers, returned, storers, offered, wrapper, last_call>>
    \/ \E c \in {<<"a">>, <<"b">>}, args \in {"X", "Y"} :
          /\ st_calls < MaxIdempotentStores
          /\ idempotent_call("analyze_product_competitiveness", c, args)
          /\ UNCHANGED <<wqvars, rqvars, ltmvars, emvars, mgvars, appvars,
                         consumers, returned, storers, offered, wrapper>>
    \/ RedisTick
          /\ UNCHANGED <<wqvars, rqvars, ltmvars, emvars, mgvars, appvars,
                         consumers, returned, storers, offered, wrapper, last_call>>

SpecIdempotent == Init /\ [][NextIdempotent]_vars

(***************************************************************************)
(* Claims                                                                   *)
(***************************************************************************)
DeadLettersOf(id) == {d \in dead_letters : d.id = id}
DeadLettered == {d.id : d \in dead_letters}
InCall(id) == \E t \in ProcIds : tasks[t].pc = "call" /\ tasks[t].cur = id
Due(id) == id \in DOMAIN pending_tasks /\ pending_tasks[id].next_retry_at <= now

\* C1: a task B that depends on a task A never goes from pending to
\* processing (by dequeue) while A is not completed.
C1_DependencyGating ==
    [][\A b \in DOMAIN results : \A a \in results[b].dependencies :
         (results[b].status = "pending" /\ results'[b].status = "processing")
            => results[a].status = "completed"]_vars

\* C2: an operation submitted with max_attempts = 3 and no "_attempt" in its
\* payload, every handler invocation of which raised (in a process that did
\* not restart): the handler is invoked at most 3 times; before the third
\* failure the operation is active and has no dead letter; after it the
\* operation is not active and has exactly one dead-letter record (written
\* right after the removal).
C2_Subject(id) ==
    /\ id \in DOMAIN submitted
    /\ submitted[id].max_attempts = 3
    /\ submitted[id]._attempt = NoAttempt
    /\ crashes = 0
    /\ fails[id] = calls[id]

C3_ReloadOnRestart ==
    (crashes > 0 /\ is_processing /\ ~InAtomicStep)
        => \A id \in LoadedIds(files) : id \in DOMAIN pending_tasks

\* C4: when submit returns an operation id, storage holds a record of that
\* id that a reload can read.
C4_DurableBeforeReturn ==
    [][next_uuid' # next_uuid => next_uuid \in LoadedIds(files')]_vars

\* C5: at every point, an operation that has exhausted its attempts has a
\* record in the active store or in the dead-letter store.
C5_DeadLetterBeforeRemoval ==
    \A id \in exhausted : id \in DOMAIN files \/ DeadLettersOf(id) # {}

\* C6: every operation of the active set has attempt <= max_attempts.
C6_AttemptWithinBudget ==
    \A id \in DOMAIN pending_tasks :
        pending_tasks[id].attempt <= pending_tasks[id].max_attempts

\* C7: an operation that has a dead-letter record never enters the active
\* set again and its handler is never invoked again.
C7_DeadLetterIsFinal ==
    [][\A id \in DeadLettered :
          id \notin DOMAIN pending_tasks' /\ calls'[id] = calls[id]]_vars

\* a reload ran while a dead letter was on disk, and the reloaded process
\* went on to invoke a handler
C7_Witness ==
    /\ dl_at_load # {}
    /\ crashes > 0
    /\ \E t \in ProcIds : tasks[t].pc = "call"

\* C8: a handler invocation starts only for an operation whose
\* next_retry_at has been reached.
C8_NeverBeforeDue ==
    [][\A id \in OpIds : calls'[id] > calls[id] =>
          /\ id \in DOMAIN pending_tasks'
          /\ pending_tasks'[id].next_retry_at <= now'
          /\ id \in LoadedIds(files) =>
                files[id].operation.next_retry_at <= now']_vars

\* the handler runs for an operation that was reloaded before it was due
C8_Witness ==
    \E t \in ProcIds : tasks[t].pc = "call" /\ tasks[t].cur \in reloaded

\* C9: without stop and crash, an operation that is active and due, and not
\* being handled at the moment, has its handler invoked later on.
C9_DueIsAttempted ==
    \A id \in OpIds : \A n \in 0..4 :
        (Due(id) /\ ~InCall(id) /\ calls[id] = n) ~> (calls[id] > n)

\* the handler of the second operation runs in a loop that is not the
\* first task created
C9_Witness ==
    \E t \in ProcIds : t >= 2 /\ tasks[t].pc = "call" /\ tasks[t].cur = 2

C11_StopKeepsRecords ==
    [][(stops' # stops \/ stop_wait # None) =>
          \A id \in LoadedIds(files) \cap DOMAIN pending_tasks :
              \/ id \in LoadedIds(files')
              \/ /\ id \notin DOMAIN pending_tasks'
                 /\ fails'[id] = fails[id]
                 /\ crashes' = crashes
              \/ id \in exhausted']_vars

\* stop_processing() has returned after it interrupted a handler, and the
\* operation is still active with its record on disk
C11_Witness ==
    /\ stops > 0 /\ stop_wait = None /\ crashes = 0
    /\ \E id \in DOMAIN pending_tasks :
          /\ id \in LoadedIds(files)
          /\ calls[id] > fails[id]
          /\ ~InCall(id)

\* C12: when the stop_processing() that awaited a processor task returns,
\* no processor loop is running.
C12_StopReturnsLoopFinished ==
    [][(stop_wait # None /\ stop_wait' = None /\ crashes' = crashes)
          => ~is_processing']_vars

\* C13: a handler invocation in progress ends only with its outcome
\* recorded: the operation removed (success, or dead letter) or a failure
\* counted and the operation rescheduled; it is never cut short.
C13_HandlerRunsToCompletion ==
    [][\A t \in ProcIds :
          (tasks[t].pc = "call" /\ tasks'[t].pc # "call" /\ crashes' = crashes)
             => \/ tasks[t].cur \notin DOMAIN pending_tasks'
                \/ fails'[tasks[t].cur] > fails[tasks[t].cur]]_vars

\* the tasks inside the try block of _process_retries, and those inside
\* _execute_retry
InLoopBody == {t \in ProcIds :
                 tasks[t].pc \in {"call", "sleep", "errsleep", "deadletter"}}
InHandler == {t \in ProcIds : tasks[t].pc \in {"call", "deadletter"}}

\* C14: at most one task is inside the processing body, it runs with
\* is_processing set, and at most one handler invocation is in progress.
C14_OneLoopOneHandler ==
    /\ Cardinality(InLoopBody) <= 1
    /\ Cardinality(InHandler) <= 1
    /\ InLoopBody # {} => is_processing

\* two submits created two tasks: one runs a handler, the other returned at
\* the guard
C14_Witness ==
    /\ crashes = 0 /\ stops = 0
    /\ \E t, u \in ProcIds :
          /\ t # u /\ tasks[t].pc = "call" /\ tasks[u].pc = "done"
          /\ _processing_task = u

\* an operation submitted without next_retry_at and without "_attempt"
C15_Subject(id) ==
    /\ id \in DOMAIN submitted
    /\ submitted[id]._attempt = NoAttempt
    /\ submitted[id].next_retry_at = None

\* C15: such an operation is scheduled 5 minutes after its submission, 15
\* minutes after the first failure of its handler and 45 minutes after the
\* second.
C15_BackoffSchedule ==
    [][\A id \in OpIds :
          /\ (next_uuid = id /\ next_uuid' # next_uuid
                /\ submitted'[id]._attempt = NoAttempt
                /\ submitted'[id].next_retry_at = None)
                => pending_tasks'[id].next_retry_at = now + 5
          /\ (C15_Subject(id) /\ fails'[id] = fails[id] + 1
                /\ id \in DOMAIN pending_tasks')
                => /\ fails'[id] \in {1, 2}
                   /\ fails'[id] = 1 => pending_tasks'[id].next_retry_at = now + 15
                   /\ fails'[id] = 2 => pending_tasks'[id].next_retry_at = now + 45]_vars

\* the handler has just failed for the second time and the operation waits
\* 45 minutes
C15_Witness ==
    \E id \in DOMAIN pending_tasks :
        /\ C15_Subject(id)
        /\ fails[id] = 2
        /\ pending_tasks[id].next_retry_at = now + 45

\* C16: a submit under a name that has no handler raises and changes nothing
\* of the queue: the active set, the files, the tasks and the flags stay as
\* they are, and no operation id is used; an operation is only ever accepted
\* under a registered name.
C16_UnregisteredSubmitRejected ==
    [][/\ rejected' # rejected =>
             UNCHANGED <<pending_tasks, callbacks, is_processing,
                         _stop_processing, _processing_task, tasks, files,
                         dead_letters, next_uuid, submitted>>
       /\ next_uuid' # next_uuid =>
             submitted'[next_uuid].name \in callbacks]_vars

\* a submit was rejected under a name that is still unregistered, while the
\* loop runs over an accepted operation
C16_Witness ==
    /\ rejected > 0
    /\ callbacks # OperationNames
    /\ is_processing
    /\ DOMAIN pending_tasks # {}

\* C17: the status of a workflow task only moves forward: a completed or
\* failed task keeps its status, and a processing task does not return to
\* pending.
C17_StatusOnlyForward ==
    [][\A id \in DOMAIN results :
          /\ results[id].status \in {"completed", "failed"}
                => results'[id].status = results[id].status
          /\ results[id].status = "processing"
                => results'[id].status # "pending"]_vars

\* C18: dequeue hands out, among the queued tasks of one priority that have
\* no dependencies and were never retried, the one enqueued first.
C18_EnqueueOrder ==
    [][\A t, u \in DOMAIN queue :
          (/\ t \notin DOMAIN queue' /\ u \in DOMAIN queue'
           /\ results[t].priority = results[u].priority
           /\ results[t].dependencies = {} /\ results[u].dependencies = {}
           /\ results[t].attempts = 0 /\ results[u].attempts = 0)
             => results[t].created_at < results[u].created_at]_vars

RowsOf(c) == {r \in memories : r.client_id = c}
\* the ids of the n rows inserted last for client c
LastInserted(c, n) ==
    {x.id : x \in {y \in inserted[c] :
                      Cardinality({z \in inserted[c] : z.id > y.id}) < n}}
\* the inserts of client c had pairwise distinct value contents
DistinctContents(c) ==
    \A x, y \in inserted[c] : x.hash = y.hash => x.id = y.id

\* C19 as stated: after cap + 1 stores of pairwise distinct values for one
\* client, exactly cap rows of it are left, the cap inserted last.
C19_CapPlusOneLeavesCap ==
    \A c \in Clients :
        (Cardinality(inserted[c]) = MaxMemoriesPerClient + 1
           /\ DistinctContents(c))
        => {r.id : r \in RowsOf(c)} = LastInserted(c, MaxMemoriesPerClient)

\* the rows one eviction deletes when the client is at its cap
Evicted ==
    IF EvictLimit < MaxMemoriesPerClient THEN EvictLimit
    ELSE MaxMemoriesPerClient

\* C19 amended: up to cap stores every row is kept; the store number cap + 1
\* deletes the 10 oldest rows of the client (all of them under a cap below
\* 10) and inserts, leaving the cap + 1 - 10 rows inserted last.
C19_CapPlusOneEvictsBatch ==
    \A c \in Clients :
        /\ Cardinality(inserted[c]) <= MaxMemoriesPerClient
              => {r.id : r \in RowsOf(c)} = {x.id : x \in inserted[c]}
        /\ Cardinality(inserted[c]) = MaxMemoriesPerClient + 1
              => {r.id : r \in RowsOf(c)} =
                    LastInserted(c, MaxMemoriesPerClient + 1 - Evicted)

\* cap + 1 distinct insights were stored for a client, and what is left of
\* them is more than the last insert and less than the cap
C19_Witness ==
    \E c \in Clients :
        /\ Cardinality(inserted[c]) = MaxMemoriesPerClient + 1
        /\ DistinctContents(c)
        /\ Cardinality(RowsOf(c)) = MaxMemoriesPerClient + 1 - Evicted

\* C20: a client never has two rows of the same value content, whatever the
\* keys they were stored under.
C20_OneRowPerContent ==
    \A r, q \in memories :
        (r.client_id = q.client_id /\ r.key[2] = q.key[2]) => r = q

\* the list a client holds; a client that never stored holds none
Held(c) == IF c \in DOMAIN episodic THEN episodic[c] ELSE <<>>
\* the last k entries of everything stored for c, in call order
LastStored(c, k) ==
    SubSeq(ep_log[c], Len(ep_log[c]) - k + 1, Len(ep_log[c]))

\* C21: after n episodic stores for a client its list is the last
\* min(n, MAX_EPISODIC_MEMORIES) entries stored, in insertion order; a step
\* takes entries away from the front of the list only, and only from a list
\* that is full.
C21_EpisodicKeepsLatest ==
    /\ [](\A c \in Clients :
            LET n == Len(ep_log[c])
                k == IF n < MaxEpisodicMemories THEN n ELSE MaxEpisodicMemories
            IN Held(c) = LastStored(c, k))
    /\ [][\A c \in DOMAIN episodic :
            \/ episodic'[c] = episodic[c]
            \/ episodic'[c] = Append(episodic[c], ep_log'[c][Len(ep_log'[c])])
            \/ /\ Len(episodic[c]) = MaxEpisodicMemories
               /\ episodic'[c] =
                     Append(Tail(episodic[c]), ep_log'[c][Len(ep_log'[c])])]_vars

C21_Witness ==
    \E c \in Clients :
        /\ Len(ep_log[c]) = MaxEpisodicMemories + 2
        /\ Len(Held(c)) = MaxEpisodicMemories
        /\ Held(c)[1] = ep_log[c][3]

\* the max_entries arguments looked at
MaxEntriesChoices == 0..(MaxEpisodicMemories + 1)

\* C27: get_summary(c, k) returns min(k, n) entries for every k >= 0, n the
\* number of entries held for c; they are the entries stored last, and each
\* carries 3 insights at most.
C27_SummaryOfLatest ==
    \A c \in Clients, k \in MaxEntriesChoices :
        LET s == get_summary(episodic, c, k)
            n == Len(Held(c))
        IN /\ Len(s) = (IF k < n THEN k ELSE n)
           /\ \A i \in DOMAIN s :
                /\ s[i].when = Held(c)[n - Len(s) + i].timestamp
                /\ Len(s[i].key_insights) <= 3

\* C28: the first element of get_summary(c, k), k >= 1, over a non-empty
\* list describes the entry stored last for c.
C28_SummaryNewestFirst ==
    \A c \in DOMAIN episodic, k \in MaxEntriesChoices \ {0} :
        get_summary(episodic, c, k)[1].when
            = ep_log[c][Len(ep_log[c])].timestamp

\* C29: a store for one client leaves the list and every summary of each
\* other client as they were, and a client that never stored has an empty
\* summary.
C29_ClientsIsolated ==
    /\ [](\A c \in Clients, k \in MaxEntriesChoices :
            ep_log[c] = <<>> => get_summary(episodic, c, k) = <<>>)
    /\ [][\A c \in Clients :
            ep_log'[c] = ep_log[c] =>
                /\ (c \in DOMAIN episodic') = (c \in DOMAIN episodic)
                /\ c \in DOMAIN episodic => episodic'[c] = episodic[c]
                /\ \A k \in MaxEntriesChoices :
                      get_summary(episodic', c, k) = get_summary(episodic, c, k)]_vars

\* both clients hold entries and the last store was for another client than
\* the one that stored first
C29_Witness ==
    \E a, b \in Clients :
        /\ a # b /\ ep_log[a] # <<>> /\ ep_log[b] # <<>>
        /\ ep_log[b][1].timestamp = 1
        /\ ep_log[a][Len(ep_log[a])].timestamp = utcnow - 1
        /\ Len(ep_log[b]) > 1

\* the time to live a store call asks for: the default for None
AskedTtl(ttl) == IF ttl.given THEN ttl.seconds ELSE RedisTTL

\* C26: with the backend available, retrieve after store(c, k, v, ttl)
\* returns a value equal to v until the TTL has elapsed and not-found from
\* then on, whatever the value and the ttl.
C26_StoreRetrieveRoundTrip ==
    \A p \in DOMAIN st_log :
        (st_log[p].available /\ st_available) =>
            IF redis_time < st_log[p].at + AskedTtl(st_log[p].ttl)
            THEN retrieve_short_term(redis, p[1], p[2], TRUE)
                    = [found |-> TRUE, value |-> st_log[p].value]
            ELSE retrieve_short_term(redis, p[1], p[2], TRUE) = NotFound

\* the field names of raw payloads
Denylist == {"raw_prompt", "scraper_payload"}

\* C22: a long-term store of a value with a top-level raw_prompt or
\* scraper_payload field changes nothing in the table (no insert, no update,
\* no eviction), and no row of the table ever has such a top-level field.
C22_RawDataRejected ==
    /\ [](\A r \in memories :
            \A i \in DOMAIN r.value : r.value[i][1] \notin Denylist)
    /\ [][refused' # refused =>
            (memories' = memories /\ serial' = serial /\ inserted' = inserted)]_vars

\* a value with raw data was turned down and the table holds rows
C22_Witness ==
    /\ refused
    /\ Cardinality(RowsOf("a")) >= MaxMemoriesPerClient

\* the names of the fields of a dict, at every depth
FieldNames(value) ==
    UNION {{value[i][d] : d \in 1..(Len(value[i]) - 1)} : i \in DOMAIN value}

\* C23: whatever was stored in the three memories, the context returned by
\* get_ai_context has no field named raw_prompt or scraper_payload, at any
\* depth.
C23_NoRawFieldInContext ==
    \A c \in Clients :
        LET context == get_ai_context(c, TRUE) IN
        /\ \A i \in DOMAIN context.episodic_summary :
              DOMAIN context.episodic_summary[i] \cap Denylist = {}
        /\ \A i \in DOMAIN context.recent_insights :
              /\ DOMAIN context.recent_insights[i] \cap Denylist = {}
              /\ FieldNames(context.recent_insights[i].value) \cap Denylist = {}

\* C24: the context returned by get_ai_context holds no value as it is
\* stored in long-term memory, and none that has the fields of a value held
\* in short-term memory.
C24_ContextHoldsNoStoredValue ==
    \A c \in Clients :
        LET context == get_ai_context(c, TRUE) IN
        \A i \in DOMAIN context.recent_insights :
            /\ \A r \in memories : context.recent_insights[i].value # r.value
            /\ \A k \in DOMAIN redis :
                  keys(context.recent_insights[i].value) # keys(redis[k].data)

\* C25: with a backend unavailable, or a backend call failing, no call lets
\* an exception through; retrieves return not-found, search returns [] and
\* get_ai_context returns recent_insights = []; a store that met the missing
\* or failing backend leaves the memories as they were.
C25_DegradedMode ==
    /\ [](~raised)
    /\ [](\A backend_ok \in BOOLEAN :
            /\ (~is_available \/ ~backend_ok) =>
                  \A c \in Clients :
                     /\ search(memories, c, "insight", backend_ok) = <<>>
                     /\ get_ai_context(c, backend_ok).recent_insights = <<>>
                     /\ \A r \in memories :
                           retrieve_long_term(memories, c, r.key, backend_ok)
                              = NotFound
            /\ (~st_available \/ ~backend_ok) =>
                  \A c \in StClients, k \in StKeys :
                     retrieve_short_term(redis, c, k, backend_ok) = NotFound)
    /\ [][skipped' # skipped =>
            /\ memories' = memories /\ serial' = serial
            /\ redis' = redis
            /\ episodic' = episodic]_vars

\* the operations submitted by workflow tasks, not by retry handlers
Originals == DOMAIN submitted \ resubmitted
RECURSIVE Sum(_, _)
Sum(f, S) ==
    IF S = {} THEN 0
    ELSE LET x == CHOOSE y \in S : TRUE IN f[x] + Sum(f, S \ {x})

\* C30: with the application's retry handlers and a service that always
\* fails, the handler invocations stay within the attempt budget of the
\* original failures (max_attempts each) and the pending operations do not
\* outnumber the original failures.
C30_RetriesStayBounded ==
    /\ Sum(calls, AppOpIds) <= DefaultMaxAttempts * Cardinality(Originals)
    /\ Cardinality(DOMAIN pending_tasks) <= Cardinality(Originals)

\* C31: without stop and crash, writing the dead letter of an exhausted
\* operation leaves the loop running (the task sleeps, is_processing stays
\* set, and its next step goes on with the for loop or the sleep between
\* iterations), and every other operation that is active and due at that
\* moment has its handler invoked later on.
C31_LoopSurvivesExhaustion ==
    /\ [][\A t \in ProcIds :
            /\ tasks[t].pc = "deadletter" =>
                  tasks'[t].pc = "errsleep" /\ is_processing'
            /\ (tasks[t].pc = "errsleep" /\ tasks'[t] # tasks[t]) =>
                  /\ tasks'[t].pc \in {"call", "sleep"} /\ is_processing'
                  /\ tasks[t].batch # {} =>
                        tasks'[t].pc = "call" /\ tasks'[t].cur \in tasks[t].batch]_vars
    /\ \A id \in OpIds : \A n \in 0..4 :
          ((\E t \in ProcIds : tasks[t].pc = "deadletter")
              /\ Due(id) /\ calls[id] = n) ~> (calls[id] > n)

\* a dead letter was written at this instant and the loop has gone on to the
\* handler of another operation of the same batch
C31_Witness ==
    \E t \in ProcIds :
        /\ tasks[t].pc = "call"
        /\ tasks[t].cur \notin DeadLettered
        /\ \E d \in dead_letters : d.failed_at = now /\ d.id # tasks[t].cur
        /\ calls[tasks[t].cur] = 1

\* no task stands inside a handler invocation or in the except branch of
\* _execute_retry
NoHandlerRunning == \A t \in ProcIds : tasks[t].pc \notin {"call", "deadletter"}

\* the record of operation id on disk agrees with the active set
SameOnDisk(id) ==
    /\ id \in LoadedIds(files)
    /\ files[id].operation.attempt = pending_tasks[id].attempt
    /\ files[id].operation.next_retry_at = pending_tasks[id].next_retry_at

\* C32: whenever no handler invocation is in progress, every operation of
\* the active set whose payload serialises has a record on disk with the same
\* attempt and next_retry_at, and no operation that has exhausted its
\* attempts has an active record; the step by which an invocation ends with
\* the operation out of the active set leaves no active record of it, and a
\* record that is gone never comes back.
C32_DiskMirrorsActiveSet ==
    /\ [](NoHandlerRunning =>
            /\ \A id \in DOMAIN pending_tasks :
                  pending_tasks[id].data.ser => SameOnDisk(id)
            /\ \A id \in exhausted : id \notin DOMAIN files)
    /\ [][\A id \in OpIds :
            /\ (InCall(id) /\ id \in DOMAIN pending_tasks
                   /\ id \notin DOMAIN pending_tasks' /\ crashes' = crashes)
                  => id \notin DOMAIN files'
            /\ (id < next_uuid /\ id \notin DOMAIN files)
                  => id \notin DOMAIN files']_vars

\* C33: a task id is in the pending queue exactly when its status is
\* pending, in the processing set exactly when its status is processing, and
\* never in both; dequeue never hands out a task recorded as completed or
\* failed.
C33_QueuesMatchStatus ==
    /\ [](\A id \in DOMAIN results :
            /\ id \in DOMAIN queue <=> results[id].status = "pending"
            /\ id \in processing <=> results[id].status = "processing"
            /\ ~(id \in DOMAIN queue /\ id \in processing))
    /\ [][\A id \in DOMAIN results :
            (id \in DOMAIN queue /\ id \notin DOMAIN queue')
               => results[id].status \notin {"completed", "failed"}]_vars

\* C34: with the Redis commands of the dequeue calls of two consumers
\* interleaved, no enqueued task is returned by more than one dequeue call.
C34_ReturnedAtMostOnce == \A id \in TaskIds : returned[id] <= 1

\* C35: at every point, with the statements of concurrently running store
\* calls interleaved in any way, no client has more rows than the cap.
C35_NeverAboveCap ==
    \A c \in Clients : Cardinality(RowsOf(c)) <= MaxMemoriesPerClient

\* C36: with the backend available, a store call that inserts a row for
\* (client, key, value) is followed by a retrieve of the same client and key
\* that returns the value.
C36_LongTermRoundTrip ==
    [][\A r \in memories' \ memories :
          retrieve_long_term(memories', r.client_id, <<r.key[1]>>, TRUE)
             = [found |-> TRUE, value |-> r.value]]_vars

\* C37: retrieve(client, key) finds nothing for a pair under which nothing is
\* stored, whatever is stored under other pairs, ids that hold ":" included.
C37_PairsIsolated ==
    \A c \in SeparatorClients, k \in SeparatorKeys :
        <<c, k>> \notin DOMAIN st_log
           => ~retrieve_short_term(redis, c, k, TRUE).found

\* C38: a call of scrape_amazon_search lets an error through to its caller
\* after an invocation whose HTTP call failed with aiohttp.ClientError or a
\* timeout only when MAX_RETRIES + 1 invocations have been made.
C38_NetworkFailureRetried ==
    (wrapper.func = "scrape_amazon_search" /\ wrapper.pc = "done"
        /\ wrapper.network_failure)
       => Len(wrapper.raised) = MAX_RETRIES + 1

\* the invocations of the call so far that raised a listed exception
ListedFailures ==
    {i \in DOMAIN wrapper.raised :
        wrapper.raised[i] # "returned"
           /\ isinstance(wrapper.raised[i], wrapper.exceptions)}

\* C39: under async_retry(max_retries = n), n >= 0, the function is invoked
\* at most n + 1 times; when n + 1 invocations have raised a listed
\* exception the call has ended in RetryExhaustedError; an invocation that
\* raised an exception of another type was the last one and the call ended in
\* that exception.
C39_BoundedInvocations ==
    (wrapper.func = "func" /\ wrapper.max_retries.given) =>
       LET n == wrapper.max_retries.n IN
       /\ Len(wrapper.raised) <= n + 1
       /\ Cardinality(ListedFailures) = n + 1 =>
             wrapper.pc = "done" /\ wrapper.result = "RetryExhaustedError"
       /\ \A i \in DOMAIN wrapper.raised :
             (wrapper.raised[i] # "returned" /\ i \notin ListedFailures) =>
                /\ i = Len(wrapper.raised)
                /\ wrapper.pc = "done" /\ wrapper.result = wrapper.raised[i]

\* C40: the value a call of an idempotent operation returns is the result
\* of the function on the arguments of that call.
C40_ReturnsOwnResult ==
    last_call.made => last_call.returned = Result(last_call.args)

====
